---- MODULE Spec2Model ----
(***************************************************************************)
(* Two-qubit Weyl (KAK) canonicalization and basis-gate synthesis, after   *)
(* crates/synthesis/src/two_qubit_decompose.rs.                            *)
(*                                                                         *)
(* Numbers.  f64 traces and fidelities are fixed-point integers with Scale *)
(* units to 1.0 (TLC integers are 32 bits wide, which fixes the            *)
(* resolution); angles are integers with AngleUnit * Scale units to one    *)
(* radian, so that pi/32 is a whole number of units and every comparison   *)
(* of the chamber reduction is exact on the lattice of multiples of pi/16. *)
(* One-qubit and two-qubit matrices are exact: their entries are elements  *)
(* of Z[zeta], zeta = exp(i*pi/8), written as 8 integer coefficients; they *)
(* are defined for angles on the lattice of multiples of pi/8.             *)
(***************************************************************************)
EXTENDS Integers, Sequences, FiniteSets, TLC

\* Fixed-point resolution of an f64: 1.0 is Scale units.
Scale == 10 * 1000

\* Angle units per Scale unit of a radian.
AngleUnit == 2 * 2

\* std::f64::consts::PI in angle units (a multiple of 32).
PI == 125664
PI2 == PI \div 2
PI4 == PI \div 4
PI32 == 3 * PI2
TWO_PI == 2 * PI
\* The lattice step pi/8.
PI8 == PI \div 8

\* DEFAULT_FIDELITY = 1.0 - 1.0e-9, rounded down to the resolution.
DEFAULT_FIDELITY == Scale - 1

\* f64::rem_euclid for a positive modulus.
RemEuclid(x, m) == x % m

Abs(x) == IF x < 0 THEN -x ELSE x
Min(x, y) == IF x < y THEN x ELSE y

\* Fixed-point product and quotient, rounded to nearest.
FMul(x, y) == (x * y + Scale \div 2) \div Scale

\* An angle in Scale units of a radian, rounded to nearest.
Radians(x) == (x + AngleUnit \div 2) \div AngleUnit

\* cos on [0, pi/4] (in Scale units of a radian) by its Taylor polynomial
\* (Horner form).
CosSeries(x) ==
    LET x2 == FMul(x, x)
        h4 == Scale - x2 \div 90
        h3 == Scale - (x2 * h4) \div (56 * Scale)
        h2 == Scale - (x2 * h3) \div (30 * Scale)
        h1 == Scale - (x2 * h2 + 6 * Scale) \div (12 * Scale)
    IN  Scale - (x2 * h1 + Scale) \div (2 * Scale)

\* sin on [0, pi/4] (in Scale units of a radian) by its Taylor polynomial
\* (Horner form).
SinSeries(x) ==
    LET x2 == FMul(x, x)
        g4 == Scale - x2 \div 72
        g3 == Scale - (x2 * g4) \div (42 * Scale)
        g2 == Scale - (x2 * g3) \div (20 * Scale)
        g1 == Scale - (x2 * g2 + 3 * Scale) \div (6 * Scale)
    IN  FMul(x, g1)

\* cos on [0, pi/2].
CosQuadrant(x) ==
    IF x > PI4 THEN SinSeries(Radians(PI2 - x)) ELSE CosSeries(Radians(x))

\* f64::cos
Cos(x) ==
    LET y == RemEuclid(x, TWO_PI)
    IN  IF y <= PI2 THEN CosQuadrant(y)
        ELSE IF y <= PI THEN -CosQuadrant(PI - y)
        ELSE IF y <= PI32 THEN -CosQuadrant(y - PI)
        ELSE CosQuadrant(TWO_PI - y)

\* f64::sin
Sin(x) == Cos(x - PI2)


(***************************************************************************)
(* Exact complex numbers: elements of Z[zeta], zeta = exp(i*pi/8), as the  *)
(* coefficients of zeta^0 .. zeta^7 (zeta^8 = -1).  A matrix is a record   *)
(* [e, m]: the entries m divided by 2^e.                                   *)
(***************************************************************************)
ZZero == <<0, 0, 0, 0, 0, 0, 0, 0>>

\* zeta^k for any integer k.
ZetaCoef(r, n) == IF n = r % 8 THEN (IF r < 8 THEN 1 ELSE -1) ELSE 0
Zeta(k) ==
    LET r == k % 16
    IN  <<ZetaCoef(r, 0), ZetaCoef(r, 1), ZetaCoef(r, 2), ZetaCoef(r, 3),
          ZetaCoef(r, 4), ZetaCoef(r, 5), ZetaCoef(r, 6), ZetaCoef(r, 7)>>

ZOne == Zeta(0)
ZAdd(x, y) ==
    <<x[1] + y[1], x[2] + y[2], x[3] + y[3], x[4] + y[4],
      x[5] + y[5], x[6] + y[6], x[7] + y[7], x[8] + y[8]>>
ZNeg(x) == <<-x[1], -x[2], -x[3], -x[4], -x[5], -x[6], -x[7], -x[8]>>
ZSub(x, y) == ZAdd(x, ZNeg(y))
ZHalf(x) ==
    <<x[1] \div 2, x[2] \div 2, x[3] \div 2, x[4] \div 2,
      x[5] \div 2, x[6] \div 2, x[7] \div 2, x[8] \div 2>>
ZEven(x) == \A n \in 1..8 : x[n] % 2 = 0

\* Product in Z[zeta]: the negacyclic convolution of the coefficients.
ZTerm(x, y, n, i) ==
    IF i <= n THEN x[i + 1] * y[n - i + 1] ELSE -(x[i + 1] * y[n - i + 9])
ZCoef(x, y, n) ==
    ZTerm(x, y, n, 0) + ZTerm(x, y, n, 1) + ZTerm(x, y, n, 2) + ZTerm(x, y, n, 3)
    + ZTerm(x, y, n, 4) + ZTerm(x, y, n, 5) + ZTerm(x, y, n, 6) + ZTerm(x, y, n, 7)
ZMul(x, y) ==
    IF x = ZZero \/ y = ZZero THEN ZZero
    ELSE SubSeq([n \in 1..8 |-> ZCoef(x, y, n - 1)], 1, 8)

\* Complex conjugate: zeta^k -> zeta^(-k) = -zeta^(8-k).
ZConj(x) == <<x[1], -x[8], -x[7], -x[6], -x[5], -x[4], -x[3], -x[2]>>

\* util::IM, util::M_IM, util::C_ONE, util::C_M_ONE, util::C_ZERO
IM == Zeta(4)
M_IM == Zeta(12)
C_ONE == Zeta(0)
C_M_ONE == Zeta(8)
C_ZERO == ZZero

\* exp(i*x) and 2*cos(x), 2*i*sin(x) for an angle x on the lattice.
OnLattice(x) == x % PI8 = 0
ExpI(x) == Zeta(x \div PI8)
TwoCos(x) == ZAdd(ExpI(x), ExpI(-x))
TwoISin(x) == ZSub(ExpI(x), ExpI(-x))

Dim(A) == Len(A.m)
AllEven(A) == \A r \in 1..Dim(A) : \A c \in 1..Dim(A) : ZEven(A.m[r][c])
\* SubSeq turns the function into the tuple of its values.
HalveRow(row) == SubSeq([c \in 1..Len(row) |-> ZHalf(row[c])], 1, Len(row))
Halve(A) ==
    [e |-> A.e - 1, m |-> SubSeq([r \in 1..Dim(A) |-> HalveRow(A.m[r])], 1, Dim(A))]

\* The reduced form of a matrix: no common factor 2 left in the entries.
RECURSIVE Norm(_)
Norm(A) == IF A.e > 0 /\ AllEven(A) THEN Norm(Halve(A)) ELSE A

ZDot(A, B, r, c, k) == ZMul(A.m[r][k], B.m[k][c])
DotEntry(A, B, r, c) ==
    IF Dim(A) = 2
    THEN ZAdd(ZDot(A, B, r, c, 1), ZDot(A, B, r, c, 2))
    ELSE ZAdd(ZAdd(ZDot(A, B, r, c, 1), ZDot(A, B, r, c, 2)),
              ZAdd(ZDot(A, B, r, c, 3), ZDot(A, B, r, c, 4)))
DotRow(A, B, r) == SubSeq([c \in 1..Dim(A) |-> DotEntry(A, B, r, c)], 1, Dim(A))
\* ndarray dot of two square matrices of the same dimension.
Dot(A, B) ==
    Norm([e |-> A.e + B.e,
          m |-> SubSeq([r \in 1..Dim(A) |-> DotRow(A, B, r)], 1, Dim(A))])

KronEntry(A, B, r, c) ==
    ZMul(A.m[((r - 1) \div 2) + 1][((c - 1) \div 2) + 1],
         B.m[((r - 1) % 2) + 1][((c - 1) % 2) + 1])
KronRow(A, B, r) == SubSeq([c \in 1..4 |-> KronEntry(A, B, r, c)], 1, 4)
\* ndarray::linalg::kron of two 2x2 matrices.
Kron(A, B) ==
    Norm([e |-> A.e + B.e,
          m |-> SubSeq([r \in 1..4 |-> KronRow(A, B, r)], 1, 4)])

ScalarRow(z, row) == SubSeq([c \in 1..Len(row) |-> ZMul(z, row[c])], 1, Len(row))
\* A matrix times a scalar of Z[zeta].
ScalarMul(z, A) ==
    Norm([e |-> A.e,
          m |-> SubSeq([r \in 1..Dim(A) |-> ScalarRow(z, A.m[r])], 1, Dim(A))])

\* transpose_conjugate of a 2x2 matrix
TransposeConjugate(A) ==
    [e |-> A.e, m |-> << <<ZConj(A.m[1][1]), ZConj(A.m[2][1])>>,
                         <<ZConj(A.m[1][2]), ZConj(A.m[2][2])>> >>]

Mat2(e, a, b, c, d) == Norm([e |-> e, m |-> << <<a, b>>, <<c, d>> >>])

\* gate_matrix::ONE_QUBIT_IDENTITY and the +-i Pauli corrections.
ONE_QUBIT_IDENTITY == Mat2(0, C_ONE, C_ZERO, C_ZERO, C_ONE)
IPZ == Mat2(0, IM, C_ZERO, C_ZERO, M_IM)
IPY == Mat2(0, C_ZERO, C_ONE, C_M_ONE, C_ZERO)
IPX == Mat2(0, C_ZERO, IM, IM, C_ZERO)

\* rx_matrix, ry_matrix, rz_matrix for theta a multiple of pi/4.
RxMatrix(theta) ==
    Mat2(1, TwoCos(theta \div 2), ZNeg(TwoISin(theta \div 2)),
            ZNeg(TwoISin(theta \div 2)), TwoCos(theta \div 2))
RyMatrix(theta) ==
    Mat2(1, TwoCos(theta \div 2), ZMul(IM, TwoISin(theta \div 2)),
            ZNeg(ZMul(IM, TwoISin(theta \div 2))), TwoCos(theta \div 2))
RzMatrix(theta) ==
    Mat2(0, ExpI(-(theta \div 2)), C_ZERO, C_ZERO, ExpI(theta \div 2))

\* B_NON_NORMALIZED, B_NON_NORMALIZED_DAGGER and magic_basis_transform.
B_NON_NORMALIZED ==
    [e |-> 0, m |-> << <<C_ONE, IM, C_ZERO, C_ZERO>>,
                       <<C_ZERO, C_ZERO, IM, C_ONE>>,
                       <<C_ZERO, C_ZERO, IM, C_M_ONE>>,
                       <<C_ONE, M_IM, C_ZERO, C_ZERO>> >>]
B_NON_NORMALIZED_DAGGER ==
    [e |-> 1, m |-> << <<C_ONE, C_ZERO, C_ZERO, C_ONE>>,
                       <<M_IM, C_ZERO, C_ZERO, IM>>,
                       <<C_ZERO, M_IM, M_IM, C_ZERO>>,
                       <<C_ZERO, C_ONE, C_M_ONE, C_ZERO>> >>]
magic_basis_transform(unitary, direction) ==
    IF direction = "OutOf"
    THEN Dot(Dot(B_NON_NORMALIZED_DAGGER, unitary), B_NON_NORMALIZED)
    ELSE Dot(Dot(B_NON_NORMALIZED, unitary), B_NON_NORMALIZED_DAGGER)

\* The diagonal matrix of four entries.
Diag4(x0, x1, x2, x3) ==
    [e |-> 0, m |-> << <<x0, C_ZERO, C_ZERO, C_ZERO>>,
                       <<C_ZERO, x1, C_ZERO, C_ZERO>>,
                       <<C_ZERO, C_ZERO, x2, C_ZERO>>,
                       <<C_ZERO, C_ZERO, C_ZERO, x3>> >>]

\* ud: exp(i (a XX + b YY + c ZZ)) for a, b, c on the lattice.
Ud(a, b, c) ==
    LET p == ZMul(ExpI(c), TwoCos(a - b))
        q == ZMul(ExpI(c), TwoISin(a - b))
        r == ZMul(ExpI(-c), TwoCos(a + b))
        s == ZMul(ExpI(-c), TwoISin(a + b))
    IN  Norm([e |-> 1,
              m |-> << <<p, C_ZERO, C_ZERO, q>>,
                       <<C_ZERO, r, s, C_ZERO>>,
                       <<C_ZERO, s, r, C_ZERO>>,
                       <<q, C_ZERO, C_ZERO, p>> >>])


(***************************************************************************)
(* Traces and fidelities.                                                  *)
(***************************************************************************)
\* Option<T>: None is the empty sequence, Some(x) is <<x>>.
None == <<>>
Some(x) == <<x>>
IsSome(o) == Len(o) = 1

\* 4 * c64(cos da cos db cos dc, sin da sin db sin dc)
TraceOf(da, db, dc) ==
    [re |-> 4 * FMul(FMul(Cos(da), Cos(db)), Cos(dc)),
     im |-> 4 * FMul(FMul(Sin(da), Sin(db)), Sin(dc))]

\* TraceToFidelity::trace_to_fid: (4 + |tr|^2) / 20
TraceToFid(tr) == (4 * Scale + (tr.re * tr.re + tr.im * tr.im) \div Scale) \div 20

\* atan on [0, 1], in Scale units of a radian:
\* (pi/4) r + r (1 - r) (0.2447 + 0.0663 r).
AtanUnit(r) ==
    FMul(Radians(PI4), r) + FMul(FMul(r, Scale - r), 2447 + FMul(663, r))

\* Complex::arg = atan2(im, re), in (-pi, pi].
ArgOf(tr) ==
    LET ax == Abs(tr.re)
        ay == Abs(tr.im)
        t  == IF ay = 0 THEN 0
              ELSE IF ay <= ax THEN AtanUnit((ay * Scale) \div ax)
              ELSE Radians(PI2) - AtanUnit((ax * Scale) \div ay)
        u  == IF tr.re >= 0 THEN t ELSE Radians(PI) - t
    IN  IF tr.im < 0 THEN -(AngleUnit * u) ELSE AngleUnit * u

\* closest_partial_swap
ClosestPartialSwap(a, b, c) ==
    LET m  == (a + b + c) \div 3
        am == Radians(a - m)
        bm == Radians(b - m)
        cm == Radians(c - m)
        ab == Radians(a - b)
        bc == Radians(b - c)
        ca == Radians(c - a)
    IN  m + AngleUnit * (FMul(FMul(FMul(am, bm), cm),
                              6 * Scale + FMul(ab, ab) + FMul(bc, bc) + FMul(ca, ca))
                         \div 18)

(***************************************************************************)
(* TwoQubitWeylDecomposition::new_inner, after the diagonalization.        *)
(***************************************************************************)
\* arg_sort: the indices that sort data (a stable sort).
Rank(data, i) ==
    Cardinality({j \in DOMAIN data : data[j] < data[i] \/ (data[j] = data[i] /\ j < i)})
ArgSort(data) == [k \in DOMAIN data |-> CHOOSE i \in DOMAIN data : Rank(data, i) = k]

\* d[3] = -d[0] - d[1] - d[2]
WithLast(d) == [i \in 0..3 |-> IF i = 3 THEN -d[0] - d[1] - d[2] ELSE d[i]]

\* cs[i] = ((d[i] + d[3]) / 2).rem_euclid(2 pi)
PairAverages(d) == [i \in 0..2 |-> RemEuclid((d[i] + d[3]) \div 2, TWO_PI)]

\* cstemp: x.rem_euclid(pi/2), then x.min(pi/2 - x)
Folded(cs) ==
    [i \in 0..2 |-> Min(RemEuclid(cs[i], PI2), PI2 - RemEuclid(cs[i], PI2))]

\* A variant of WeylOrder that keeps the order of arg_sort.
WeylOrderUnrotated(cs) == ArgSort(Folded(cs))

\* order = arg_sort(cstemp); (order[0], order[1], order[2]) = (order[1], order[2], order[0])
WeylOrder(cs) ==
    LET o == ArgSort(Folded(cs))
    IN  [i \in 0..2 |-> o[(i + 1) % 3]]

\* (cs[0], cs[1], cs[2]) = (cs[order[0]], cs[order[1]], cs[order[2]])
SortedAngles(d) ==
    LET cs == PairAverages(WithLast(d))
        order == WeylOrder(cs)
    IN  [i \in 0..2 |-> cs[order[i]]]

\* (d[0], d[1], d[2]) = (d[order[0]], d[order[1]], d[order[2]])
SortedD(d) ==
    LET d4 == WithLast(d)
        order == WeylOrder(PairAverages(d4))
    IN  [i \in 0..3 |-> IF i = 3 THEN d4[3] ELSE d4[order[i]]]

\* The seven conditional flips into the Weyl chamber; w holds cs, the four K
\* matrices, global_phase and conjs.
Flip1(w) ==
    IF w.cs[0] > PI2
    THEN [w EXCEPT !.cs[0] = @ - PI32, !.K1l = Dot(@, IPY), !.K1r = Dot(@, IPY),
                   !.global_phase = @ + PI2]
    ELSE w

Flip2(w) ==
    IF w.cs[1] > PI2
    THEN [w EXCEPT !.cs[1] = @ - PI32, !.K1l = Dot(@, IPX), !.K1r = Dot(@, IPX),
                   !.global_phase = @ + PI2]
    ELSE w

Flip3(w) ==
    IF w.cs[0] > PI4
    THEN [w EXCEPT !.cs[0] = PI2 - @, !.K1l = Dot(@, IPY), !.K2r = Dot(IPY, @),
                   !.conjs = @ + 1, !.global_phase = @ - PI2]
    ELSE w

\* A variant of Flip4 without the correction of the phase by pi.
Flip4Uncorrected(w) ==
    IF w.cs[1] > PI4
    THEN [w EXCEPT !.cs[1] = PI2 - @, !.K1l = Dot(@, IPX), !.K2r = Dot(IPX, @),
                   !.conjs = @ + 1, !.global_phase = @ + PI2]
    ELSE w

Flip4(w) ==
    IF w.cs[1] > PI4
    THEN [w EXCEPT !.cs[1] = PI2 - @, !.K1l = Dot(@, IPX), !.K2r = Dot(IPX, @),
                   !.conjs = @ + 1,
                   !.global_phase = IF w.conjs + 1 = 1 THEN @ + PI2 - PI ELSE @ + PI2]
    ELSE w

Flip5(w) ==
    IF w.cs[2] > PI2
    THEN [w EXCEPT !.cs[2] = @ - PI32, !.K1l = Dot(@, IPZ), !.K1r = Dot(@, IPZ),
                   !.global_phase = IF w.conjs = 1 THEN @ + PI2 - PI ELSE @ + PI2]
    ELSE w

\* A variant of Flip6 that also flips after two conjugations.
Flip6OnAnyConj(w) ==
    IF w.conjs >= 1
    THEN [w EXCEPT !.cs[2] = PI2 - @, !.K1l = Dot(@, IPZ), !.K2r = Dot(IPZ, @),
                   !.global_phase = @ + PI2]
    ELSE w

Flip6(w) ==
    IF w.conjs = 1
    THEN [w EXCEPT !.cs[2] = PI2 - @, !.K1l = Dot(@, IPZ), !.K2r = Dot(IPZ, @),
                   !.global_phase = @ + PI2]
    ELSE w

Flip7(w) ==
    IF w.cs[2] > PI4
    THEN [w EXCEPT !.cs[2] = @ - PI2, !.K1l = Dot(@, IPZ), !.K1r = Dot(@, IPZ),
                   !.global_phase = @ - PI2]
    ELSE w

WeylChamber(w) == Flip7(Flip6(Flip5(Flip4(Flip3(Flip2(Flip1(w)))))))


\* A variant of IsClose that never passes.
IsCloseNever(a, b, c, fidelity, ap, bp, cp) == FALSE

\* The closure is_close of new_inner: with no requested fidelity it is false.
IsCloseUnrequested(a, b, c, fidelity, ap, bp, cp) ==
    TraceToFid(TraceOf(a - ap, b - bp, c - cp))
    >= (IF IsSome(fidelity) THEN fidelity[1] ELSE Scale)
IsClose(a, b, c, fidelity, ap, bp, cp) ==
    IF IsSome(fidelity)
    THEN TraceToFid(TraceOf(a - ap, b - bp, c - cp)) >= fidelity[1]
    ELSE FALSE

\* A variant of SelectSpecialization that tests ControlledEquiv first.
SelectControlledFirst(a, b, c, fidelity) ==
    LET closest_abc == ClosestPartialSwap(a, b, c)
        closest_ab_minus_c == ClosestPartialSwap(a, b, -c)
    IN  IF IsClose(a, b, c, fidelity, a, 0, 0) THEN "ControlledEquiv"
        ELSE IF IsClose(a, b, c, fidelity, 0, 0, 0) THEN "IdEquiv"
        ELSE IF IsClose(a, b, c, fidelity, PI4, PI4, PI4)
                \/ IsClose(a, b, c, fidelity, PI4, PI4, -PI4) THEN "SWAPEquiv"
        ELSE IF IsClose(a, b, c, fidelity, closest_abc, closest_abc, closest_abc)
             THEN "PartialSWAPEquiv"
        ELSE IF IsClose(a, b, c, fidelity, closest_ab_minus_c, closest_ab_minus_c,
                        -closest_ab_minus_c)
             THEN "PartialSWAPFlipEquiv"
        ELSE IF IsClose(a, b, c, fidelity, PI4, PI4, c) THEN "MirrorControlledEquiv"
        ELSE IF IsClose(a, b, c, fidelity, (a + b) \div 2, (a + b) \div 2, c)
             THEN "fSimaabEquiv"
        ELSE IF IsClose(a, b, c, fidelity, a, (b + c) \div 2, (b + c) \div 2)
             THEN "fSimabbEquiv"
        ELSE IF IsClose(a, b, c, fidelity, a, (b - c) \div 2, (c - b) \div 2)
             THEN "fSimabmbEquiv"
        ELSE "General"

\* The chain of closeness tests that picks the specialization when none is forced.
SelectSpecialization(a, b, c, fidelity) ==
    LET closest_abc == ClosestPartialSwap(a, b, c)
        closest_ab_minus_c == ClosestPartialSwap(a, b, -c)
    IN  IF IsClose(a, b, c, fidelity, 0, 0, 0) THEN "IdEquiv"
        ELSE IF IsClose(a, b, c, fidelity, PI4, PI4, PI4)
                \/ IsClose(a, b, c, fidelity, PI4, PI4, -PI4) THEN "SWAPEquiv"
        ELSE IF IsClose(a, b, c, fidelity, closest_abc, closest_abc, closest_abc)
             THEN "PartialSWAPEquiv"
        ELSE IF IsClose(a, b, c, fidelity, closest_ab_minus_c, closest_ab_minus_c,
                        -closest_ab_minus_c)
             THEN "PartialSWAPFlipEquiv"
        ELSE IF IsClose(a, b, c, fidelity, a, 0, 0) THEN "ControlledEquiv"
        ELSE IF IsClose(a, b, c, fidelity, PI4, PI4, c) THEN "MirrorControlledEquiv"
        ELSE IF IsClose(a, b, c, fidelity, (a + b) \div 2, (a + b) \div 2, c)
             THEN "fSimaabEquiv"
        ELSE IF IsClose(a, b, c, fidelity, a, (b + c) \div 2, (b + c) \div 2)
             THEN "fSimabbEquiv"
        ELSE IF IsClose(a, b, c, fidelity, a, (b - c) \div 2, (c - b) \div 2)
             THEN "fSimabmbEquiv"
        ELSE "General"

\* let specialization = match _specialization { Some(s) => s, None => ... }
ChooseSpecialization(a, b, c, fidelity, forced) ==
    IF IsSome(forced) THEN forced[1] ELSE SelectSpecialization(a, b, c, fidelity)

\* The record `general` built from the chamber-reduced angles.
GeneralRecord(w, fidelity) ==
    [a |-> w.cs[1], b |-> w.cs[0], c |-> w.cs[2],
     global_phase |-> w.global_phase,
     K1l |-> w.K1l, K1r |-> w.K1r, K2l |-> w.K2l, K2r |-> w.K2r,
     specialization |-> "General",
     default_euler_basis |-> "ZYZ",
     requested_fidelity |-> fidelity,
     calculated_fidelity |-> -Scale,
     flipped_from_original |-> FALSE]

\* The Euler bases used by the specializations that call angles_from_unitary,
\* "" for the others.
EulerBasisOf(specialization) ==
    IF specialization \in {"ControlledEquiv", "fSimabbEquiv", "fSimabmbEquiv"} THEN "XYX"
    ELSE IF specialization \in {"MirrorControlledEquiv", "fSimaabEquiv"} THEN "ZYZ"
    ELSE ""

\* The rewrite of `general` by the specialization.  k2l and k2r are what
\* angles_from_unitary returned for K2l and K2r: <<theta, phi, lambda, phase>>.
Specialized(general, specialization, k2l, k2r) ==
    LET a == general.a
        b == general.b
        c == general.c
        k2l_dag == TransposeConjugate(general.K2l)
    IN
    CASE specialization = "IdEquiv" ->
           [general EXCEPT !.specialization = specialization,
              !.a = 0, !.b = 0, !.c = 0,
              !.K1l = Dot(general.K1l, general.K2l),
              !.K1r = Dot(general.K1r, general.K2r),
              !.K2l = ONE_QUBIT_IDENTITY, !.K2r = ONE_QUBIT_IDENTITY]
      [] specialization = "SWAPEquiv" ->
           IF c > 0
           THEN [general EXCEPT !.specialization = specialization,
                   !.a = PI4, !.b = PI4, !.c = PI4,
                   !.K1l = Dot(general.K1l, general.K2r),
                   !.K1r = Dot(general.K1r, general.K2l),
                   !.K2l = ONE_QUBIT_IDENTITY, !.K2r = ONE_QUBIT_IDENTITY]
           ELSE [general EXCEPT !.specialization = specialization,
                   !.flipped_from_original = TRUE,
                   !.a = PI4, !.b = PI4, !.c = PI4,
                   !.global_phase = @ + PI2,
                   !.K1l = Dot(Dot(general.K1l, IPZ), general.K2r),
                   !.K1r = Dot(Dot(general.K1r, IPZ), general.K2l),
                   !.K2l = ONE_QUBIT_IDENTITY, !.K2r = ONE_QUBIT_IDENTITY]
      [] specialization = "PartialSWAPEquiv" ->
           LET closest == ClosestPartialSwap(a, b, c)
           IN  [general EXCEPT !.specialization = specialization,
                  !.a = closest, !.b = closest, !.c = closest,
                  !.K1l = Dot(general.K1l, general.K2l),
                  !.K1r = Dot(general.K1r, general.K2l),
                  !.K2r = Dot(k2l_dag, general.K2r),
                  !.K2l = ONE_QUBIT_IDENTITY]
      [] specialization = "PartialSWAPFlipEquiv" ->
           LET closest == ClosestPartialSwap(a, b, -c)
           IN  [general EXCEPT !.specialization = specialization,
                  !.a = closest, !.b = closest, !.c = -closest,
                  !.K1l = Dot(general.K1l, general.K2l),
                  !.K1r = Dot(Dot(Dot(general.K1r, IPZ), general.K2l), IPZ),
                  !.K2r = Dot(Dot(Dot(IPZ, k2l_dag), IPZ), general.K2r),
                  !.K2l = ONE_QUBIT_IDENTITY]
      [] specialization = "ControlledEquiv" ->
           [general EXCEPT !.specialization = specialization,
              !.b = 0, !.c = 0,
              !.global_phase = @ + k2l[4] + k2r[4],
              !.K1l = Dot(general.K1l, RxMatrix(k2l[2])),
              !.K1r = Dot(general.K1r, RxMatrix(k2r[2])),
              !.K2l = Dot(RyMatrix(k2l[1]), RxMatrix(k2l[3])),
              !.K2r = Dot(RyMatrix(k2r[1]), RxMatrix(k2r[3])),
              !.default_euler_basis = "XYX"]
      [] specialization = "MirrorControlledEquiv" ->
           [general EXCEPT !.specialization = specialization,
              !.a = PI4, !.b = PI4,
              !.global_phase = @ + k2l[4] + k2r[4],
              !.K1l = Dot(general.K1l, RzMatrix(k2r[2])),
              !.K1r = Dot(general.K1r, RzMatrix(k2l[2])),
              !.K2l = Dot(RyMatrix(k2l[1]), RzMatrix(k2l[3])),
              !.K2r = Dot(RyMatrix(k2r[1]), RzMatrix(k2r[3]))]
      [] specialization = "fSimaabEquiv" ->
           [general EXCEPT !.specialization = specialization,
              !.a = (a + b) \div 2, !.b = (a + b) \div 2,
              !.global_phase = @ + k2l[4],
              !.K1r = Dot(general.K1r, RzMatrix(k2l[2])),
              !.K1l = Dot(general.K1l, RzMatrix(k2l[2])),
              !.K2l = Dot(RyMatrix(k2l[1]), RzMatrix(k2l[3])),
              !.K2r = Dot(RzMatrix(-k2l[2]), general.K2r)]
      [] specialization = "fSimabbEquiv" ->
           [general EXCEPT !.specialization = specialization,
              !.b = (b + c) \div 2, !.c = (b + c) \div 2,
              !.global_phase = @ + k2l[4],
              !.K1r = Dot(general.K1r, RxMatrix(k2l[2])),
              !.K1l = Dot(general.K1l, RxMatrix(k2l[2])),
              !.K2l = Dot(RyMatrix(k2l[1]), RxMatrix(k2l[3])),
              !.K2r = Dot(RxMatrix(-k2l[2]), general.K2r),
              !.default_euler_basis = "XYX"]
      [] specialization = "fSimabmbEquiv" ->
           [general EXCEPT !.specialization = specialization,
              !.b = (b - c) \div 2, !.c = -((b - c) \div 2),
              !.global_phase = @ + k2l[4],
              !.K1l = Dot(general.K1l, RxMatrix(k2l[2])),
              !.K1r = Dot(Dot(Dot(general.K1r, IPZ), RxMatrix(k2l[2])), IPZ),
              !.K2l = Dot(RyMatrix(k2l[1]), RxMatrix(k2l[3])),
              !.K2r = Dot(Dot(Dot(IPZ, RxMatrix(-k2l[2])), IPZ), general.K2r),
              !.default_euler_basis = "XYX"]
      [] OTHER -> general

\* A variant of SpecializedTrace that never mirrors the angles.
SpecializedTraceUnmirrored(general, specialized) ==
    TraceOf(general.a - specialized.a, general.b - specialized.b,
            general.c - specialized.c)

\* The trace between the chamber-reduced angles (a, b, c) and the specialized
\* ones; mirrored when the SWAP rewrite flipped the sign of c.
SpecializedTraceMirrored(general, specialized) ==
    TraceOf(PI2 - general.a - specialized.a, general.b - specialized.b,
            -general.c - specialized.c)

SpecializedTrace(general, specialized) ==
    IF specialized.flipped_from_original
    THEN TraceOf(PI2 - general.a - specialized.a, general.b - specialized.b,
                 -general.c - specialized.c)
    ELSE TraceOf(general.a - specialized.a, general.b - specialized.b,
                 general.c - specialized.c)

\* The tolerance 1.0e-13 of the fidelity check, in Scale units (below the
\* resolution).
FidelityTolerance == 0

\* specialized.calculated_fidelity + 1.0e-13 < fid
FidelityBelowRequest(calculated_fidelity, requested_fidelity) ==
    IsSome(requested_fidelity)
    /\ calculated_fidelity + FidelityTolerance < requested_fidelity[1]

(***************************************************************************)
(* The external one-qubit decomposer, by its contract: angles_from_unitary *)
(* returns <<theta, phi, lambda, phase>> with                              *)
(*   K = exp(i phase) R(phi) R'(theta) R(lambda),                          *)
(* R, R' = Rz, Ry for the basis ZYZ, Rx, Ry for XYX, Rz, Rx for ZXZ and    *)
(* Rx, Rz for XZX.  Any such tuple on the lattice of multiples of pi/4 may *)
(* be the one returned.                                                    *)
(***************************************************************************)
EulerTuples ==
    {<<t * PI4, p * PI4, l * PI4, g * PI>> : t \in 0..4, p \in -3..4, l \in -3..4, g \in 0..1}

AxisRotation(axis, angle) ==
    IF axis = "X" THEN RxMatrix(angle)
    ELSE IF axis = "Y" THEN RyMatrix(angle)
    ELSE RzMatrix(angle)
EulerAxes(basis) ==
    IF basis = "XYX" THEN <<"X", "Y">>
    ELSE IF basis = "ZXZ" THEN <<"Z", "X">>
    ELSE IF basis = "XZX" THEN <<"X", "Z">>
    ELSE <<"Z", "Y">>
EulerMatrix(basis, t) ==
    ScalarMul(ExpI(t[4]),
              Dot(Dot(AxisRotation(EulerAxes(basis)[1], t[2]),
                      AxisRotation(EulerAxes(basis)[2], t[1])),
                  AxisRotation(EulerAxes(basis)[1], t[3])))

EulerTableOf(basis) == {<<t, EulerMatrix(basis, t)>> : t \in EulerTuples}
EulerTable ==
    [XYX |-> EulerTableOf("XYX"), ZYZ |-> EulerTableOf("ZYZ"),
     ZXZ |-> EulerTableOf("ZXZ"), XZX |-> EulerTableOf("XZX")]

NoAngles == <<0, 0, 0, 0>>

AnglesFromUnitary(K, basis) ==
    IF basis \in DOMAIN EulerTable
    THEN {p[1] : p \in {q \in EulerTable[basis] : q[2] = K}}
    ELSE {NoAngles}

\* The tuples of a set that follow a rule for a block that is a rotation about
\* the outer axis alone, where phi and lambda are not determined: the whole
\* angle in phi ("phi"), the whole angle in lambda ("lambda"), or any split
\* ("any").  A set without such a tuple is kept whole.
ByRule(tuples, rule) ==
    IF rule = "phi" /\ \E t \in tuples : t[3] = 0 THEN {t \in tuples : t[3] = 0}
    ELSE IF rule = "lambda" /\ \E t \in tuples : t[2] = 0 THEN {t \in tuples : t[2] = 0}
    ELSE tuples

\* TwoQubitWeylDecomposition::new_inner as one function of its arguments: the
\* set of what it can return, one element for each outcome of the Euler-angle
\* routine allowed by the rule.
CheckedRecord(general, d) ==
    IF FidelityBelowRequest(TraceToFid(SpecializedTrace(general, d)), d.requested_fidelity)
    THEN [ok |-> FALSE, error |-> "fidelity", specialization |-> d.specialization,
          calculated_fidelity |-> TraceToFid(SpecializedTrace(general, d))]
    ELSE [ok |-> TRUE,
          value |-> [d EXCEPT !.calculated_fidelity =
                                  TraceToFid(SpecializedTrace(general, d)),
                              !.global_phase = @ + ArgOf(SpecializedTrace(general, d))]]
NewInnerByRule(target, fidelity, specialization, rule) ==
    IF target.diag_ok = {}
    THEN {[ok |-> FALSE, error |-> "failed to diagonalize M2"]}
    ELSE
    UNION {UNION {{CheckedRecord(general, d) :
                      d \in {Specialized(general, sp, k2l, k2r) :
                                k2l \in ByRule(AnglesFromUnitary(general.K2l,
                                                                EulerBasisOf(sp)), rule),
                                k2r \in (IF sp \in {"ControlledEquiv",
                                                    "MirrorControlledEquiv"}
                                         THEN ByRule(AnglesFromUnitary(
                                                         general.K2r, EulerBasisOf(sp)),
                                                     rule)
                                         ELSE {NoAngles})}} :
                  sp \in {ChooseSpecialization(general.a, general.b, general.c,
                                               fidelity, specialization)}} :
           general \in {GeneralRecord(
                            WeylChamber([cs |-> SortedAngles(target.d),
                                         K1l |-> target.K[1], K1r |-> target.K[2],
                                         K2l |-> target.K[3], K2r |-> target.K[4],
                                         global_phase |-> target.phase, conjs |-> 0]),
                            fidelity)}}
NewInnerAlone(target, fidelity, specialization) ==
    NewInnerByRule(target, fidelity, specialization, "any")


(***************************************************************************)
(* __weyl_coordinates and __num_basis_gates.                               *)
(***************************************************************************)
\* Mat::transpose
Transpose(A) ==
    [e |-> A.e,
     m |-> SubSeq([r \in 1..Dim(A) |->
                      SubSeq([c \in 1..Dim(A) |-> A.m[c][r]], 1, Dim(A))], 1, Dim(A))]

\* Mat::determinant of a 4x4 matrix, the sum over the permutations of the
\* columns; the value is z / 2^e.
Inversions(p) == Cardinality({ij \in (1..4) \X (1..4) : ij[1] < ij[2] /\ p[ij[1]] > p[ij[2]]})
PermTerm(A, p) ==
    LET t == ZMul(ZMul(A.m[1][p[1]], A.m[2][p[2]]), ZMul(A.m[3][p[3]], A.m[4][p[4]]))
    IN  IF Inversions(p) % 2 = 0 THEN t ELSE ZNeg(t)
RECURSIVE DetSum(_, _)
DetSum(A, ps) ==
    IF ps = {} THEN ZZero
    ELSE LET p == CHOOSE q \in ps : TRUE
         IN  ZAdd(PermTerm(A, p), DetSum(A, ps \ {p}))
Determinant(A) == [e |-> 4 * A.e, z |-> DetSum(A, Permutations(1..4))]

\* The scalar z / 2^e is the root of unity zeta^k.
IsZeta(x, k) == x.z = SubSeq([n \in 1..8 |-> (2 ^ x.e) * Zeta(k)[n]], 1, 8)

\* Complex::arg of the root of unity zeta^k: atan2(im, re) lies in (-pi, pi],
\* and is -pi for -1 when the imaginary part is the negative zero.
ArgsOfZeta(k) ==
    IF k % 16 = 8 THEN {PI, -PI}
    ELSE IF k % 16 < 8 THEN {(k % 16) * PI8}
    ELSE {((k % 16) - 16) * PI8}

\* The values Complex::arg can take for a scalar of modulus one.
Args(x) == UNION {ArgsOfZeta(k) : k \in {n \in 0..15 : IsZeta(x, n)}}

\* scale(C1 / unitary.determinant().powf(0.25)) * unitary, for each value of
\* the determinant's argument whose quarter is on the lattice.
Uscaled(unitary) ==
    {ScalarMul(ExpI(-(arg \div 4)), unitary) :
        arg \in {x \in Args(Determinant(unitary)) : OnLattice(x \div 4)}}

\* The diagonal of a 4x4 matrix, as scalars z / 2^e.
Diagonal(A) == [i \in 0..3 |-> [e |-> A.e, z |-> A.m[i + 1][i + 1]]]
IsDiagonal(A) == \A r \in 1..4 : \A c \in 1..4 : r # c => A.m[r][c] = ZZero

\* complex_eigenvalues of a diagonal matrix: its diagonal, in the order the
\* eigenvalue routine lists it.
ComplexEigenvalues(M) ==
    IF IsDiagonal(M)
    THEN {[i \in 0..3 |-> Diagonal(M)[p[i + 1] - 1]] : p \in Permutations(1..4)}
    ELSE {}

\* darg = -x.arg() / 2.0 of each eigenvalue.
Dargs(eigs) ==
    LET args == SubSeq([i \in 1..4 |-> Args(eigs[i - 1])], 1, 4)
    IN  {[i \in 0..3 |-> -(x[i + 1] \div 2)] :
            x \in args[1] \X args[2] \X args[3] \X args[4]}

\* The flips of __weyl_coordinates into the Weyl chamber, on cs alone.
CoordinateFlips(cs0) ==
    LET cs1 == IF cs0[0] > PI2 THEN [cs0 EXCEPT ![0] = @ - PI32] ELSE cs0
        cs2 == IF cs1[1] > PI2 THEN [cs1 EXCEPT ![1] = @ - PI32] ELSE cs1
        f3  == cs2[0] > PI4
        cs3 == IF f3 THEN [cs2 EXCEPT ![0] = PI2 - @] ELSE cs2
        f4  == cs3[1] > PI4
        cs4 == IF f4 THEN [cs3 EXCEPT ![1] = PI2 - @] ELSE cs3
        conjs == (IF f3 THEN 1 ELSE 0) + (IF f4 THEN 1 ELSE 0)
        cs5 == IF cs4[2] > PI2 THEN [cs4 EXCEPT ![2] = @ - PI32] ELSE cs4
        cs6 == IF conjs = 1 THEN [cs5 EXCEPT ![2] = PI2 - @] ELSE cs5
    IN  IF cs6[2] > PI4 THEN [cs6 EXCEPT ![2] = @ - PI2] ELSE cs6

\* A variant of WeylCoordinates that returns cs in the order it is held.
WeylCoordinatesUnswapped(darg) ==
    LET d == WithLast(darg)
        cs == PairAverages(d)
        order == WeylOrder(cs)
        flipped == CoordinateFlips([i \in 0..2 |-> cs[order[i]]])
    IN  <<flipped[0], flipped[1], flipped[2]>>

\* __weyl_coordinates from darg on: [cs[1], cs[0], cs[2]]
WeylCoordinates(darg) ==
    LET d == WithLast(darg)
        cs == PairAverages(d)
        order == WeylOrder(cs)
        flipped == CoordinateFlips([i \in 0..2 |-> cs[order[i]]])
    IN  <<flipped[1], flipped[0], flipped[2]>>

\* A variant of BasisTraces whose trace for one use leaves a as it is.
BasisTracesUnshifted(a, b, c, basis_b) ==
    <<TraceOf(a, b, c),
      TraceOf(a, basis_b - b, c),
      [re |-> 4 * Cos(c), im |-> 0],
      [re |-> 4 * Scale, im |-> 0]>>

\* The traces of __num_basis_gates and of TwoQubitBasisDecomposer::traces for
\* 0, 1, 2 and 3 uses of a basis gate with angle basis_b.
BasisTraces(a, b, c, basis_b) ==
    <<TraceOf(a, b, c),
      TraceOf(PI4 - a, basis_b - b, c),
      [re |-> 4 * Cos(c), im |-> 0],
      [re |-> 4 * Scale, im |-> 0]>>

\* Basis fidelities are whole numbers of steps: FidelitySteps steps are 1.0.
FidelitySteps == 10

\* f64::powi: x.powi(0) is 1.0 for every x.
Powi(x, n) == IF n = 0 THEN 1 ELSE x ^ n

\* A variant of DiscountedFidelity that discounts the uses not made.
DiscountedFidelityOfUnused(trace, basis_fidelity, idx) ==
    TraceToFid(trace) * Powi(basis_fidelity, 3 - idx) * Powi(FidelitySteps, idx)

\* trace.trace_to_fid() * basis_fidelity.powi(idx), times FidelitySteps^3.
DiscountedFidelity(trace, basis_fidelity, idx) ==
    TraceToFid(trace) * Powi(basis_fidelity, idx) * Powi(FidelitySteps, 3 - idx)

\* A variant of MinByStep that lets a later equal element win.
MinByStepLast(best, k, scores) == IF scores[k] >= scores[best] THEN k ELSE best

\* One step of Iterator::min_by with the arguments of the comparison switched:
\* the later element wins only if its fidelity is strictly greater.
MinByStep(best, k, scores) == IF scores[k] > scores[best] THEN k ELSE best

\* The index of the first maximum of the discounted fidelities (np.argmax),
\* counted from 0.
RECURSIVE MinByFold(_, _, _)
MinByFold(best, k, scores) ==
    IF k > Len(scores) THEN best - 1
    ELSE MinByFold(MinByStep(best, k, scores), k + 1, scores)

BestNBasis(traces, basis_fidelity) ==
    MinByFold(1, 2, [k \in 1..4 |-> DiscountedFidelity(traces[k], basis_fidelity, k - 1)])

(***************************************************************************)
(* TwoQubitBasisDecomposer.                                                *)
(***************************************************************************)
\* c64(re, im) with whole re and im, and sqrt(2) = 2 cos(pi/4).
Gaussian(re, im) == <<re, 0, 0, 0, im, 0, 0, 0>>
SQRT_2 == TwoCos(PI4)

\* K12R_ARR and K12L_ARR
K12R_ARR == Mat2(1, ZMul(SQRT_2, IM), SQRT_2, ZNeg(SQRT_2), ZMul(SQRT_2, M_IM))
K12L_ARR == Mat2(1, Gaussian(1, 1), Gaussian(1, 1), Gaussian(-1, 1), Gaussian(1, -1))

\* The fixed matrices of TwoQubitBasisDecomposer::new_inner for the angle b of
\* the basis gate.
K11l(b) ==
    Mat2(1, ZMul(Gaussian(1, -1), ZMul(M_IM, ExpI(-b))), ZMul(Gaussian(1, -1), ExpI(-b)),
            ZMul(Gaussian(1, -1), ZMul(M_IM, ExpI(b))), ZMul(Gaussian(1, -1), ZNeg(ExpI(b))))
K11r(b) ==
    Mat2(1, ZMul(SQRT_2, ZMul(IM, ExpI(-b))), ZMul(SQRT_2, ZNeg(ExpI(-b))),
            ZMul(SQRT_2, ExpI(b)), ZMul(SQRT_2, ZMul(M_IM, ExpI(b))))
K32lK21l(b) ==
    Mat2(2, ZMul(SQRT_2, ZAdd(Gaussian(2, 0), ZMul(IM, TwoCos(2 * b)))),
            ZMul(SQRT_2, TwoISin(2 * b)),
            ZMul(SQRT_2, TwoISin(2 * b)),
            ZMul(SQRT_2, ZSub(Gaussian(2, 0), ZMul(IM, TwoCos(2 * b)))))
K21r(b) ==
    Mat2(1, ZMul(Gaussian(1, 1), ZMul(M_IM, ExpI(-2 * b))), ZMul(Gaussian(1, 1), ExpI(-2 * b)),
            ZMul(Gaussian(1, 1), ZMul(IM, ExpI(2 * b))), ZMul(Gaussian(1, 1), ExpI(2 * b)))
K22L_ARR == Mat2(1, SQRT_2, ZNeg(SQRT_2), SQRT_2, SQRT_2)
K22r == Mat2(0, C_ZERO, C_ONE, C_M_ONE, C_ZERO)
K31l(b) ==
    Mat2(1, ZMul(SQRT_2, ExpI(-b)), ZMul(SQRT_2, ExpI(-b)),
            ZMul(SQRT_2, ZNeg(ExpI(b))), ZMul(SQRT_2, ExpI(b)))
K31r(b) == Mat2(0, ZMul(IM, ExpI(b)), C_ZERO, C_ZERO, ZMul(M_IM, ExpI(-b)))
K32r(b) ==
    Mat2(1, ZMul(Gaussian(1, 1), ExpI(b)), ZMul(Gaussian(1, 1), ZNeg(ExpI(-b))),
            ZMul(Gaussian(1, 1), ZMul(M_IM, ExpI(b))), ZMul(Gaussian(1, 1), ZMul(M_IM, ExpI(-b))))

\* TwoQubitBasisDecomposer::new_inner after the canonicalization of the gate.
BasisDecomposer(gate, basis_decomposer, basis_fidelity, euler_basis, pulse_optimize) ==
    LET b == basis_decomposer.b
        k1ld == TransposeConjugate(basis_decomposer.K1l)
        k1rd == TransposeConjugate(basis_decomposer.K1r)
        k2ld == TransposeConjugate(basis_decomposer.K2l)
        k2rd == TransposeConjugate(basis_decomposer.K2r)
    IN  [gate |-> gate,
         gate_params |-> <<>>,
         basis_fidelity |-> basis_fidelity,
         euler_basis |-> euler_basis,
         pulse_optimize |-> pulse_optimize,
         basis_decomposer |-> basis_decomposer,
         super_controlled |-> (basis_decomposer.a = PI4 /\ basis_decomposer.c = 0),
         u0l |-> Dot(K31l(b), k1ld),
         u0r |-> Dot(K31r(b), k1rd),
         u1l |-> Dot(Dot(k2ld, K32lK21l(b)), k1ld),
         u1ra |-> Dot(k2rd, K32r(b)),
         u1rb |-> Dot(K21r(b), k1rd),
         u2la |-> Dot(k2ld, K22L_ARR),
         u2lb |-> Dot(K11l(b), k1ld),
         u2ra |-> Dot(k2rd, K22r),
         u2rb |-> Dot(K11r(b), k1rd),
         u3l |-> Dot(k2ld, K12L_ARR),
         u3r |-> Dot(k2rd, K12R_ARR),
         q0l |-> Dot(TransposeConjugate(K12L_ARR), k1ld),
         q0r |-> Dot(Dot(TransposeConjugate(K12R_ARR), IPZ), k1rd),
         q1la |-> Dot(k2ld, TransposeConjugate(K11l(b))),
         q1lb |-> Dot(K11l(b), k1ld),
         q1ra |-> Dot(Dot(k2rd, IPZ), TransposeConjugate(K11r(b))),
         q1rb |-> Dot(K11r(b), k1rd),
         q2l |-> Dot(k2ld, K12L_ARR),
         q2r |-> Dot(k2rd, K12R_ARR)]

\* decomp0_inner, decomp1_inner, decomp2_supercontrolled_inner and
\* decomp3_supercontrolled_inner: the one-qubit blocks, last applied first.
Decomp0(target) == <<Dot(target.K1r, target.K2r), Dot(target.K1l, target.K2l)>>
Decomp1(self, target) ==
    <<Dot(TransposeConjugate(self.basis_decomposer.K2r), target.K2r),
      Dot(TransposeConjugate(self.basis_decomposer.K2l), target.K2l),
      Dot(target.K1r, TransposeConjugate(self.basis_decomposer.K1r)),
      Dot(target.K1l, TransposeConjugate(self.basis_decomposer.K1l))>>
Decomp2Supercontrolled(self, target) ==
    <<Dot(self.q2r, target.K2r),
      Dot(self.q2l, target.K2l),
      Dot(Dot(self.q1ra, RzMatrix(2 * target.b)), self.q1rb),
      Dot(Dot(self.q1la, RzMatrix(-2 * target.a)), self.q1lb),
      Dot(target.K1r, self.q0r),
      Dot(target.K1l, self.q0l)>>
Decomp3Supercontrolled(self, target) ==
    <<Dot(self.u3r, target.K2r),
      Dot(self.u3l, target.K2l),
      Dot(Dot(self.u2ra, RzMatrix(2 * target.b)), self.u2rb),
      Dot(Dot(self.u2la, RzMatrix(-2 * target.a)), self.u2lb),
      Dot(Dot(self.u1ra, RzMatrix(-2 * target.c)), self.u1rb),
      self.u1l,
      Dot(target.K1r, self.u0r),
      Dot(target.K1l, self.u0l)>>
Decomposition(self, target, best_nbasis) ==
    IF best_nbasis = 0 THEN Decomp0(target)
    ELSE IF best_nbasis = 1 THEN Decomp1(self, target)
    ELSE IF best_nbasis = 2 THEN Decomp2Supercontrolled(self, target)
    ELSE Decomp3Supercontrolled(self, target)

\* The basis fidelity the selection uses: 1.0 unless approximate.
EffectiveBasisFidelity(self, basis_fidelity, approximate) ==
    IF ~approximate THEN FidelitySteps
    ELSE IF IsSome(basis_fidelity) THEN basis_fidelity[1] ELSE self.basis_fidelity

\* TwoQubitBasisDecomposer::traces
SynthTraces(self, target) ==
    BasisTraces(target.a, target.b, target.c, self.basis_decomposer.b)

\* f64::NAN as a basis fidelity, a value apart from the steps 0..FidelitySteps.
\* The fold panics on it: fid * basis_fidelity.powi(idx) is NaN for idx >= 1
\* and fid2.partial_cmp(fid1).unwrap() unwraps None.
NAN == -Scale
FoldPanics(traces, basis_fidelity) == basis_fidelity = NAN

\* best_nbasis of call_inner (_num_basis_uses.unwrap_or_else of the fold) and
\* of generate_sequence (the fold, then _num_basis_uses.unwrap_or of it), and
\* whether the call panics on the way.
PanicsCallInner(num_basis_uses, traces, basis_fidelity) ==
    ~IsSome(num_basis_uses) /\ FoldPanics(traces, basis_fidelity)
PanicsGenerateSequence(num_basis_uses, traces, basis_fidelity) ==
    FoldPanics(traces, basis_fidelity)
BestNBasisCallInner(num_basis_uses, traces, basis_fidelity) ==
    IF IsSome(num_basis_uses) THEN num_basis_uses[1] ELSE BestNBasis(traces, basis_fidelity)
BestNBasisGenerateSequence(num_basis_uses, traces, basis_fidelity) ==
    LET best_nbasis == BestNBasis(traces, basis_fidelity)
    IN  IF IsSome(num_basis_uses) THEN num_basis_uses[1] ELSE best_nbasis

\* The external one-qubit synthesis (unitary_to_gate_sequence_inner with
\* simplify = true), by its contract: gates whose product is the block up to
\* the global phase returned, and no gate for a multiple of the identity.  The
\* gates of a block are kept as their product.
IdentityPhases(block) ==
    IF block.e = 0 /\ block.m[1][2] = ZZero /\ block.m[2][1] = ZZero
       /\ block.m[1][1] = block.m[2][2]
    THEN {k * PI8 : k \in {n \in 0..15 : block.m[1][1] = Zeta(n)}}
    ELSE {}
OneQubitSequence(block) ==
    IF IdentityPhases(block) # {}
    THEN [gates |-> <<>>, global_phase |-> CHOOSE x \in IdentityPhases(block) : TRUE]
    ELSE [gates |-> <<block>>, global_phase |-> 0]

BlockGatesOnOtherQubit(euler, i) ==
    [k \in 1..Len(euler[i + 1].gates) |->
        [gate |-> "1q", matrix |-> euler[i + 1].gates[k], qubits |-> <<(i + 1) % 2>>]]
\* The gates pushed for block number i (from 0) of the decomposition.
BlockGates(euler, i) ==
    [k \in 1..Len(euler[i + 1].gates) |->
        [gate |-> "1q", matrix |-> euler[i + 1].gates[k], qubits |-> <<i % 2>>]]
BasisGate(self) == [gate |-> self.gate, params |-> self.gate_params, qubits |-> <<0, 1>>]

\* The gates of the sequence up to and including use number n of the basis gate.
RECURSIVE GatesUpTo(_, _, _)
GatesUpTo(self, euler, n) ==
    IF n = 0 THEN <<>>
    ELSE GatesUpTo(self, euler, n - 1)
         \o BlockGates(euler, 2 * (n - 1)) \o BlockGates(euler, 2 * (n - 1) + 1)
         \o <<BasisGate(self)>>

RECURSIVE SumPhases(_, _)
SumPhases(euler, n) == IF n = 0 THEN 0 ELSE SumPhases(euler, n - 1) + euler[n].global_phase

\* The TwoQubitGateSequence built by call_inner and generate_sequence on the
\* path that does not use the pulse-optimal routines.
EulerDecompositions(decomposition) ==
    SubSeq([i \in 1..Len(decomposition) |-> OneQubitSequence(decomposition[i])],
           1, Len(decomposition))
GateSequenceOfBlocks(self, target, best_nbasis, euler) ==
    [gates |-> GatesUpTo(self, euler, best_nbasis)
               \o BlockGates(euler, 2 * best_nbasis)
               \o BlockGates(euler, 2 * best_nbasis + 1),
     global_phase |-> target.global_phase
                      - best_nbasis * self.basis_decomposer.global_phase
                      + (IF best_nbasis = 2 THEN PI ELSE 0)
                      + SumPhases(euler, Len(euler))]
GateSequence(self, target, best_nbasis) ==
    GateSequenceOfBlocks(self, target, best_nbasis,
                         EulerDecompositions(Decomposition(self, target, best_nbasis)))

\* gate_matrix::CX_GATE and the 4x4 identity.
CX_GATE ==
    [e |-> 0, m |-> << <<C_ONE, C_ZERO, C_ZERO, C_ZERO>>,
                       <<C_ZERO, C_ZERO, C_ZERO, C_ONE>>,
                       <<C_ZERO, C_ZERO, C_ONE, C_ZERO>>,
                       <<C_ZERO, C_ONE, C_ZERO, C_ZERO>> >>]
TWO_QUBIT_IDENTITY == Diag4(C_ONE, C_ONE, C_ONE, C_ONE)

\* gate_matrix::H_GATE, and the matrices of StandardGate::SX and CX on qubits
\* [1, 0] (change_basis of CX_GATE).
H_GATE == Mat2(1, SQRT_2, SQRT_2, SQRT_2, ZNeg(SQRT_2))
SX_GATE == Mat2(1, Gaussian(1, 1), Gaussian(1, -1), Gaussian(1, -1), Gaussian(1, 1))
CX_GATE_10 ==
    [e |-> 0, m |-> << <<C_ONE, C_ZERO, C_ZERO, C_ZERO>>,
                       <<C_ZERO, C_ONE, C_ZERO, C_ZERO>>,
                       <<C_ZERO, C_ZERO, C_ZERO, C_ONE>>,
                       <<C_ZERO, C_ZERO, C_ONE, C_ZERO>> >>]

\* The entries the pulse-efficient routines push.
StandardCX(qubits) == [gate |-> "cx", params |-> <<>>, qubits |-> qubits]
StandardSX(qubit) == [gate |-> "sx", params |-> <<>>, qubits |-> <<qubit>>]
StandardRZ(angle, qubit) == [gate |-> "rz", params |-> <<angle>>, qubits |-> <<qubit>>]

\* append_1q_sequence: the gates of the one-qubit synthesis of the matrix, on
\* the qubit.
Append1q(unitary, qubit) ==
    LET sequence == OneQubitSequence(unitary)
    IN  [k \in 1..Len(sequence.gates) |->
            [gate |-> "1q", matrix |-> sequence.gates[k], qubits |-> <<qubit>>]]
Append1qPhase(unitary) == OneQubitSequence(unitary).global_phase

EulerQUnpermuted(q, i, j) == q[i + 1][j + 1]
\* euler_q[i][j] of the pulse-efficient routines, from the tuples that
\* angles_from_unitary returned: [euler_angles[2], euler_angles[0], euler_angles[1]].
EulerQ(q, i, j) == IF j = 0 THEN q[i + 1][3] ELSE IF j = 1 THEN q[i + 1][1] ELSE q[i + 1][2]

RECURSIVE SumEulerPhases(_, _)
SumEulerPhases(q, n) == IF n = 0 THEN 0 ELSE SumEulerPhases(q, n - 1) + q[n][4]

\* The matrix of one entry of a sequence on two qubits, as compute_unitary
\* takes it.
EntryMatrix(inst) ==
    LET op_matrix == IF inst.gate = "1q" THEN inst.matrix
                     ELSE IF inst.gate = "sx" THEN SX_GATE
                     ELSE IF inst.gate = "rz" THEN RzMatrix(inst.params[1])
                     ELSE CX_GATE
    IN  IF inst.qubits = <<0>> THEN Kron(ONE_QUBIT_IDENTITY, op_matrix)
        ELSE IF inst.qubits = <<1>> THEN Kron(op_matrix, ONE_QUBIT_IDENTITY)
        ELSE IF inst.qubits = <<1, 0>> THEN CX_GATE_10
        ELSE op_matrix

\* compute_unitary(sequence, global_phase)
RECURSIVE ComputeUnitary(_, _, _)
ComputeUnitary(gates, global_phase, n) ==
    IF n = 0
    THEN Diag4(ExpI(global_phase), ExpI(global_phase), ExpI(global_phase), ExpI(global_phase))
    ELSE Dot(EntryMatrix(gates[n]), ComputeUnitary(gates, global_phase, n - 1))

\* abs_diff_eq!(a[[0, 0]], -b[[0, 0]]) of two matrices m / 2^e.
ZTimes(k, z) == SubSeq([n \in 1..8 |-> k * z[n]], 1, 8)
NegatedEntry00(a, b) == ZTimes(2 ^ b.e, a.m[1][1]) = ZTimes(2 ^ a.e, ZNeg(b.m[1][1]))

\* get_sx_vz_2cx_efficient_euler, for the angles q0 and q1 that
\* angles_from_unitary returned for the blocks of qubit 0 (ZXZ) and of qubit 1
\* (XZX): the sequence, from the four collapsed one-qubit matrices.
SxVz2cxSequence(self, target, q0, q1, m0a, m1a, m0b, m1b) ==
    [some |-> TRUE,
     gates |-> Append1q(m0a, 0) \o Append1q(m1a, 1)
               \o <<StandardCX(<<0, 1>>), StandardSX(0),
                    StandardRZ(EulerQ(q0, 1, 1) - PI, 0), StandardSX(0),
                    StandardRZ(EulerQ(q1, 1, 1), 1), StandardCX(<<0, 1>>)>>
               \o Append1q(m0b, 0) \o Append1q(m1b, 1),
     global_phase |-> target.global_phase - 2 * self.basis_decomposer.global_phase
                      + SumEulerPhases(q0, 3) + SumEulerPhases(q1, 3)
                      + Append1qPhase(m0a) + Append1qPhase(m1a) + PI2
                      + Append1qPhase(m0b) + Append1qPhase(m1b)]
SxVz2cx(self, target, q0, q1) ==
    SxVz2cxSequence(self, target, q0, q1,
        Dot(RzMatrix(EulerQ(q0, 0, 2) + EulerQ(q0, 1, 0) + PI2),
            Dot(RxMatrix(EulerQ(q0, 0, 1)), RzMatrix(EulerQ(q0, 0, 0)))),
        Dot(RxMatrix(EulerQ(q1, 0, 2) + EulerQ(q1, 1, 0)),
            Dot(RzMatrix(EulerQ(q1, 0, 1)), RxMatrix(EulerQ(q1, 0, 0)))),
        Dot(RzMatrix(EulerQ(q0, 2, 2)),
            Dot(RxMatrix(EulerQ(q0, 2, 1)),
                RzMatrix(EulerQ(q0, 1, 2) + EulerQ(q0, 2, 0) + PI2))),
        Dot(RxMatrix(EulerQ(q1, 2, 2)),
            Dot(RzMatrix(EulerQ(q1, 2, 1)),
                RxMatrix(EulerQ(q1, 1, 2) + EulerQ(q1, 2, 0)))))

\* get_sx_vz_3cx_efficient_euler, for the matrix of the target and the angles q0
\* and q1 that angles_from_unitary returned: None where the routine gives up
\* because pulse_optimize is set and the angles are not the optimal ones.
\* Its end: the sign of the phase, from compute_unitary of the sequence.
SxVz3cxSignCorrected(unitary_matrix, gave_up, gates, global_phase) ==
    IF gave_up THEN [some |-> FALSE]
    ELSE [some |-> TRUE,
          gates |-> gates,
          global_phase |->
              IF NegatedEntry00(unitary_matrix,
                                ComputeUnitary(gates, global_phase, Len(gates)))
              THEN global_phase + PI ELSE global_phase]

\* Its middle: the gates and the phase, from x12 and the collapsed one-qubit
\* matrices before the first and after the last CX.
SxVz3cxSequence(self, target, unitary_matrix, q0, q1, x12, euler_matrix_q0, euler_matrix_q1, last_q0, last_q1) ==
    LET x12_is_non_zero == x12 # 0
        x12_is_pi_mult == x12 % PI = 0
        x12_is_old_mult == (x12 \div PI) % 2 = 1
        x12_phase == IF x12_is_old_mult THEN -PI ELSE PI
        x12_is_half_pi == x12 = PI2
        is_none == ~IsSome(self.pulse_optimize)
        sx12 == x12_is_non_zero /\ ~x12_is_pi_mult /\ ~x12_is_half_pi
    IN  SxVz3cxSignCorrected(unitary_matrix,
            \/ (sx12 /\ ~is_none)
            \/ (EulerQ(q1, 1, 1) # PI2 /\ ~is_none)
            \/ (EulerQ(q1, 2, 1) # PI2 /\ ~is_none),
            Append1q(euler_matrix_q0, 0) \o Append1q(euler_matrix_q1, 1)
            \o <<StandardCX(<<1, 0>>)>>
            \o (IF x12_is_pi_mult
                THEN <<StandardRZ(IF x12_is_non_zero /\ x12_is_old_mult
                                  THEN -EulerQ(q0, 1, 1) ELSE EulerQ(q0, 1, 1), 0)>>
                ELSE <<>>)
            \o (IF x12_is_half_pi THEN <<StandardSX(0)>>
                ELSE IF sx12 THEN Append1q(RxMatrix(x12), 0) ELSE <<>>)
            \o (IF EulerQ(q1, 1, 1) = PI2 THEN <<StandardSX(1)>>
                ELSE Append1q(RxMatrix(EulerQ(q1, 1, 1)), 1))
            \o <<StandardRZ(EulerQ(q1, 1, 2) + EulerQ(q1, 2, 0), 1),
                 StandardCX(<<1, 0>>),
                 StandardRZ(EulerQ(q0, 2, 1), 0)>>
            \o (IF EulerQ(q1, 2, 1) = PI2 THEN <<StandardSX(1)>>
                ELSE Append1q(RxMatrix(EulerQ(q1, 2, 1)), 1))
            \o <<StandardCX(<<1, 0>>)>>
            \o Append1q(last_q0, 0) \o Append1q(last_q1, 1),
            RemEuclid(target.global_phase - 3 * self.basis_decomposer.global_phase, TWO_PI)
            + SumEulerPhases(q0, 4) + SumEulerPhases(q1, 4)
            + Append1qPhase(euler_matrix_q0) + Append1qPhase(euler_matrix_q1)
            + (IF x12_is_pi_mult /\ x12_is_non_zero THEN x12_phase ELSE 0)
            + (IF x12_is_pi_mult /\ ~(x12_is_non_zero /\ x12_is_old_mult) THEN PI ELSE 0)
            + (IF x12_is_half_pi THEN -PI4
               ELSE IF sx12 THEN Append1qPhase(RxMatrix(x12)) ELSE 0)
            + (IF EulerQ(q1, 1, 1) = PI2 THEN -PI4
               ELSE Append1qPhase(RxMatrix(EulerQ(q1, 1, 1))))
            + (IF EulerQ(q1, 2, 1) = PI2 THEN -PI4
               ELSE Append1qPhase(RxMatrix(EulerQ(q1, 2, 1))))
            + Append1qPhase(last_q0) + Append1qPhase(last_q1))

\* Its beginning: x12 and the collapsed matrices.
SxVz3cxFirstRz(q0, x12) ==
    IF x12 # 0 /\ x12 % PI = 0
    THEN EulerQ(q0, 0, 2) - (x12 - EulerQ(q0, 1, 0))
    ELSE EulerQ(q0, 0, 2) + EulerQ(q0, 1, 0)
SxVz3cx(self, target, unitary_matrix, q0, q1) ==
    SxVz3cxSequence(self, target, unitary_matrix, q0, q1,
        EulerQ(q0, 1, 2) + EulerQ(q0, 2, 0),
        Dot(H_GATE,
            Dot(RzMatrix(SxVz3cxFirstRz(q0, EulerQ(q0, 1, 2) + EulerQ(q0, 2, 0))),
                Dot(RxMatrix(EulerQ(q0, 0, 1)), RzMatrix(EulerQ(q0, 0, 0))))),
        Dot(H_GATE,
            Dot(RxMatrix(EulerQ(q1, 0, 2) + EulerQ(q1, 1, 0)),
                Dot(RzMatrix(EulerQ(q1, 0, 1)), RxMatrix(EulerQ(q1, 0, 0))))),
        Dot(RzMatrix(EulerQ(q0, 3, 2)),
            Dot(RxMatrix(EulerQ(q0, 3, 1)),
                Dot(RzMatrix(EulerQ(q0, 2, 2) + EulerQ(q0, 3, 0)), H_GATE))),
        Dot(RxMatrix(EulerQ(q1, 3, 2)),
            Dot(RzMatrix(EulerQ(q1, 3, 1)),
                Dot(RxMatrix(EulerQ(q1, 2, 2) + EulerQ(q1, 3, 0)), H_GATE))))

\* The tuples angles_from_unitary can return for the blocks of qubit 0 (with
\* start = 1) or of qubit 1 (with start = 2) of a decomposition.
RECURSIVE EulerOfFirstBlocks(_, _, _, _)
EulerOfFirstBlocks(decomposition, start, basis, n) ==
    IF n = 0 THEN {<<>>}
    ELSE {Append(q, t) :
             q \in EulerOfFirstBlocks(decomposition, start, basis, n - 1),
             t \in AnglesFromUnitary(decomposition[2 * (n - 1) + start], basis)}
EulerOfBlocks(decomposition, start, basis) ==
    EulerOfFirstBlocks(decomposition, start, basis, Len(decomposition) \div 2)

\* pulse_optimal_chooser: the outcomes Ok(None), Err(error) and Ok(Some(value)),
\* the last from the pulse-efficient routines for the bases ZSX and ZSXX and
\* the gate CX with two or three uses.
ZSXBasesWithU == {"ZSX", "ZSXX", "U"}
PulseOptimalChooserStrict(self, best_nbasis, decomposition, target_decomposed, unitary_matrix) ==
    IF self.euler_basis \notin {"ZSX", "ZSXX"}
    THEN {[kind |-> "error", error |-> "'pulse_optimize' currently only works with ZSX basis"]}
    ELSE IF self.gate # "cx"
    THEN {[kind |-> "error",
           error |-> "pulse_optimizer currently only works with CNOT entangling gate"]}
    ELSE {[kind |-> "none"]}
PulseOptimalChooserDeclining(self, best_nbasis, decomposition, target_decomposed, unitary_matrix) ==
    {[kind |-> "none"]}
ZSXBases == {"ZSX", "ZSXX"}
PulseOptimalChooser(self, best_nbasis, decomposition, target_decomposed, unitary_matrix) ==
    IF IsSome(self.pulse_optimize) /\ (best_nbasis = 0 \/ best_nbasis = 1 \/ best_nbasis > 3)
    THEN {[kind |-> "none"]}
    ELSE IF self.euler_basis \notin ZSXBases
    THEN IF IsSome(self.pulse_optimize)
         THEN {[kind |-> "error",
                error |-> "'pulse_optimize' currently only works with ZSX basis"]}
         ELSE {[kind |-> "none"]}
    ELSE IF self.gate # "cx"
    THEN IF IsSome(self.pulse_optimize)
         THEN {[kind |-> "error",
                error |-> "pulse_optimizer currently only works with CNOT entangling gate"]}
         ELSE {[kind |-> "none"]}
    ELSE IF best_nbasis = 3 \/ best_nbasis = 2
    THEN {IF res.some THEN [kind |-> "some", value |-> [gates |-> res.gates,
                                                       global_phase |-> res.global_phase]]
          ELSE IF IsSome(self.pulse_optimize)
          THEN [kind |-> "error",
                error |-> "Failed to compute requested pulse optimal decomposition"]
          ELSE [kind |-> "none"] :
             res \in {IF best_nbasis = 3
                      THEN SxVz3cx(self, target_decomposed, unitary_matrix, q[1], q[2])
                      ELSE SxVz2cx(self, target_decomposed, q[1], q[2]) :
                         q \in EulerOfBlocks(decomposition, 1, "ZXZ")
                               \X EulerOfBlocks(decomposition, 2, "XZX")}}
    ELSE {[kind |-> "none"]}

\* What the diagonalization and the split into one-qubit factors hand over for
\* a matrix: the trials that diagonalize it, d, the four factors and the phase.
Target(diag_ok, d, K, phase) == [diag_ok |-> diag_ok, d |-> d, K |-> K, phase |-> phase]

\* The matrix handed to new_inner, from what the numerical steps found for it:
\* k1 = Into(u_p p temp) = exp(i phase_l) K1l (x) K1r, k2 = Into(p^T) =
\* exp(i phase_r) K2l (x) K2r, temp = diag(exp(i d)) with d sorted, p orthogonal,
\* so that unitary_matrix = exp(i phase) k1 Into(temp^-1) k2.
UnitaryOf(target) ==
    LET d == SortedD(target.d)
        temp_inv == Diag4(ExpI(-d[0]), ExpI(-d[1]), ExpI(-d[2]), ExpI(-d[3]))
    IN  ScalarMul(ExpI(target.phase),
                  Dot(Dot(Kron(target.K[1], target.K[2]),
                          magic_basis_transform(temp_inv, "Into")),
                      Kron(target.K[3], target.K[4])))

(***************************************************************************)
(* decompose_two_qubit_product_gate.  The matrix is given by what           *)
(* det_one_qubit finds in it: the magnitudes, in Scale units, of the       *)
(* determinants of its top-left and bottom-left blocks, and of the left    *)
(* factor computed with either block.                                      *)
(***************************************************************************)
SelectRLarger(special_unitary) ==
    IF special_unitary.det_top_left < special_unitary.det_bottom_left
    THEN [block |-> "bottom-left", det_r |-> special_unitary.det_bottom_left]
    ELSE [block |-> "top-left", det_r |-> special_unitary.det_top_left]
\* r = special_unitary[..2, ..2]; if det_r.abs() < 0.1 { r = special_unitary[2.., ..2] }
SelectR(special_unitary) ==
    IF special_unitary.det_top_left < Scale \div 10
    THEN [block |-> "bottom-left", det_r |-> special_unitary.det_bottom_left]
    ELSE [block |-> "top-left", det_r |-> special_unitary.det_top_left]

\* The rest: the error for det_r, the left factor from the block chosen, the
\* error for det_l.
ProductGateOutcome(special_unitary, r) ==
    IF r.det_r < Scale \div 10
    THEN [ok |-> FALSE,
          error |-> "decompose_two_qubit_product_gate: unable to decompose: detR < 0.1"]
    ELSE IF special_unitary.det_l[r.block] < (9 * Scale) \div 10
    THEN [ok |-> FALSE,
          error |-> "decompose_two_qubit_product_gate: unable to decompose: detL < 0.9"]
    ELSE [ok |-> TRUE, r |-> r.block, det_r |-> r.det_r,
          det_l |-> special_unitary.det_l[r.block]]
DecomposeTwoQubitProductGate(special_unitary) ==
    ProductGateOutcome(special_unitary, SelectR(special_unitary))

(***************************************************************************)
(* TwoQubitControlledUDecomposer.  The gate family is a black box from a   *)
(* parameter to a matrix; here it is a function from the parameter to what *)
(* the diagonalization finds for its matrix.                               *)
(***************************************************************************)
\* DEFAULT_ATOL = 1e-12, below the resolution.
DEFAULT_ATOL == 0

\* gate_matrix::S_GATE and SDG_GATE.
S_GATE == Mat2(0, C_ONE, C_ZERO, C_ZERO, IM)
SDG_GATE == Mat2(0, C_ONE, C_ZERO, C_ZERO, M_IM)

\* The f64 quotient x / y of two angles, in Scale units, and the quotient of an
\* angle by such a number.
FDiv(x, y) == (x * Scale) \div y

\* One-qubit factors in SU(2): quarter turns.
KQuarterTurns == <<RyMatrix(PI2), Dot(RxMatrix(PI2), RyMatrix(PI2)),
                   Dot(RzMatrix(PI2), RyMatrix(PI2)), Dot(RyMatrix(PI2), RxMatrix(-PI2))>>

\* StandardGate::RXX.matrix(theta) = exp(-i theta/2 XX): the eigenphase
\* halves are theta/2 twice and -theta/2 twice, the factors are identities.
RxxTarget(theta) ==
    Target({0}, [i \in 0..2 |-> IF i = 2 THEN -(theta \div 2) ELSE theta \div 2],
           <<ONE_QUBIT_IDENTITY, ONE_QUBIT_IDENTITY, ONE_QUBIT_IDENTITY,
             ONE_QUBIT_IDENTITY>>, 0)

\* RXXEquivalent::matrix(param) for the gate families of the model: RXX
\* itself, RXX at half the parameter, RXX at a fiftieth of it, RXX at the
\* parameter below one radian and at half of it above, a family with the
\* canonical angles (param/2, param/2, 0), RXX at the parameter from zero
\* up with a matrix no trial diagonalizes below zero, and RXX between quarter
\* turns of the qubits.
XXAngle(gate, param) ==
    IF gate.name = "rxx_half" THEN param \div 2
    ELSE IF gate.name = "rxx_weak" THEN 2 * (param \div 100)
    ELSE IF gate.name = "rxx_kinked"
         THEN (IF param < AngleUnit * Scale THEN param ELSE param \div 2)
    ELSE param
Matrix(gate, param) ==
    IF gate.name = "rxx_positive" /\ param < 0
    THEN [RxxTarget(param) EXCEPT !.diag_ok = {}]
    ELSE IF gate.name = "rxx_turned"
    THEN [RxxTarget(param) EXCEPT !.K = KQuarterTurns]
    ELSE IF gate.name = "xx_plus_yy"
    THEN Target({0}, [i \in 0..2 |-> IF i = 2 THEN -param ELSE 0],
                <<ONE_QUBIT_IDENTITY, ONE_QUBIT_IDENTITY, ONE_QUBIT_IDENTITY,
                  ONE_QUBIT_IDENTITY>>, 0)
    ELSE RxxTarget(XXAngle(gate, param))

\* let test_angles = [0.2, 0.3, PI2]
TestAngles == <<(2 * AngleUnit * Scale) \div 10, (3 * AngleUnit * Scale) \div 10, PI2>>

ScaleInverted(rxx_a, equiv_a) == FDiv(equiv_a, rxx_a)
\* let scale_a = decomposer_rxx.a / decomposer_equiv.a
ScaleOf(rxx_a, equiv_a) == FDiv(rxx_a, equiv_a)

NotEquivalentNever(decomp_a, test_angle, scale_a) == FALSE
\* (decomp.a * 2.0 - test_angle / scale_a).abs() > atol
NotEquivalent(decomp_a, test_angle, scale_a) ==
    Abs(decomp_a * 2 - FDiv(test_angle, scale_a)) > DEFAULT_ATOL

\* What the closure of new_inner reads of a canonicalization: the error, or
\* the angle a.  Neither depends on which angles the Euler-angle routine
\* returns, so the closure is computed for one outcome of that routine.
AngleA(results) == {IF r.ok THEN [ok |-> TRUE, a |-> r.value.a] ELSE r : r \in results}

\* The closure of new_inner for one test angle, after the three
\* canonicalizations: the first error of the three, else the check of 2 a
\* against the scaled test angle.
ProbeOutcome(decomp, decomposer_rxx, decomposer_equiv, test_angle) ==
    IF ~decomp.ok THEN decomp
    ELSE IF ~decomposer_rxx.ok THEN decomposer_rxx
    ELSE IF ~decomposer_equiv.ok THEN decomposer_equiv
    ELSE IF NotEquivalent(decomp.a, test_angle,
                          ScaleOf(decomposer_rxx.a, decomposer_equiv.a))
         THEN [ok |-> FALSE, error |-> "The provided gate is not equivalent to an RXX."]
    ELSE [ok |-> TRUE, scale_a |-> ScaleOf(decomposer_rxx.a, decomposer_equiv.a)]
ProbeRequest(gate, test_angle, k) ==
    IF k = 1 THEN <<Matrix(gate, test_angle), Some(DEFAULT_FIDELITY), None>>
    ELSE IF k = 2 THEN <<RxxTarget(test_angle), None, Some("ControlledEquiv")>>
    ELSE <<Matrix(gate, test_angle), Some(DEFAULT_FIDELITY), Some("ControlledEquiv")>>
ProbeOutcomes(found, test_angle) ==
    {ProbeOutcome(decomp[2], decomposer_rxx[2], decomposer_equiv[2], test_angle) :
        decomp \in {f \in found : f[1] = 1},
        decomposer_rxx \in {f \in found : f[1] = 2},
        decomposer_equiv \in {f \in found : f[1] = 3}}
ProbeScale(gate, test_angle) ==
    IF gate.num_params # 1
    THEN {[ok |-> FALSE,
           error |-> "Equivalent gate needs to take exactly 1 angle parameter."]}
    ELSE UNION {ProbeOutcomes(found, test_angle) :
                   found \in {UNION {{<<k, r>> :
                                  r \in AngleA(NewInnerByRule(
                                                   ProbeRequest(gate, test_angle, k)[1],
                                                   ProbeRequest(gate, test_angle, k)[2],
                                                   ProbeRequest(gate, test_angle, k)[3],
                                                   "phi"))} : k \in 1..3}}}

\* !abs_diff_eq!(scale_val, &scale, epsilon = atol) for some scale_val
InconsistentScales(scales) ==
    \E k \in 1..Len(scales) : Abs(scales[k] - scales[1]) > DEFAULT_ATOL

\* The gates of a one-qubit sequence on a qubit; the same reversed, each gate
\* replaced by its inverse (invert_1q_gate); the same on qubit 0 and on qubit 1
\* gate after gate.
Gates1q(seq, qubit) ==
    [k \in 1..Len(seq.gates) |->
        [gate |-> "1q", matrix |-> seq.gates[k], qubits |-> <<qubit>>]]
InvertedGates1q(seq, qubit) ==
    [k \in 1..Len(seq.gates) |->
        [gate |-> "1q", matrix |-> TransposeConjugate(seq.gates[Len(seq.gates) + 1 - k]),
         qubits |-> <<qubit>>]]
OnBothQubits(seq) ==
    [k \in 1..(2 * Len(seq.gates)) |->
        [gate |-> "1q", matrix |-> seq.gates[(k + 1) \div 2], qubits |-> <<(k + 1) % 2>>]]

\* invert_2q_gate: the inverse of a gate of a sequence, on the same qubits.
Invert2qGate(g) ==
    IF g.gate = "1q" THEN [g EXCEPT !.matrix = TransposeConjugate(@)]
    ELSE [g EXCEPT !.params = <<-g.params[1]>>]
InvertedCircuitUnreversed(gates) ==
    [k \in 1..Len(gates) |-> Invert2qGate(gates[k])]
\* for gate in circ_c.gates.into_iter().rev() { self.invert_2q_gate(gate)? }
InvertedCircuit(gates) ==
    [k \in 1..Len(gates) |-> Invert2qGate(gates[Len(gates) + 1 - k])]

RxxOpUnscaled(self, angle) ==
    [gate |-> self.rxx_equivalent_gate.name, params |-> <<angle>>, qubits |-> <<0, 1>>]
\* (rxx_op, smallvec![self.scale * angle], smallvec![0, 1])
RxxOp(self, angle) ==
    [gate |-> self.rxx_equivalent_gate.name, params |-> <<FMul(self.scale, angle)>>,
     qubits |-> <<0, 1>>]

\* to_rxx_gate(angle): the circuit around one application of the gate, from the
\* canonicalization of the gate's matrix at scale * angle.
ToRxxCircuit(self, angle, decomposer_inv) ==
    [gates |-> InvertedGates1q(OneQubitSequence(decomposer_inv.K2r), 0)
               \o InvertedGates1q(OneQubitSequence(decomposer_inv.K2l), 1)
               \o <<RxxOp(self, angle)>>
               \o InvertedGates1q(OneQubitSequence(decomposer_inv.K1r), 0)
               \o InvertedGates1q(OneQubitSequence(decomposer_inv.K1l), 1),
     global_phase |-> -decomposer_inv.global_phase
                      - OneQubitSequence(decomposer_inv.K2r).global_phase
                      - OneQubitSequence(decomposer_inv.K2l).global_phase
                      - OneQubitSequence(decomposer_inv.K1r).global_phase
                      - OneQubitSequence(decomposer_inv.K1l).global_phase]
ToRxxGate(self, angle, rule) ==
    {IF r.ok THEN [ok |-> TRUE, value |-> ToRxxCircuit(self, angle, r.value)] ELSE r :
        r \in NewInnerByRule(Matrix(self.rxx_equivalent_gate, FMul(self.scale, angle)),
                             Some(DEFAULT_FIDELITY), None, rule)}

ExceedsAlways(x, atol) == TRUE
\* (x).abs() > atol
Exceeds(x, atol) == Abs(x) > atol

WeylAnglePositive(x) == 2 * x
\* -2.0 * x
WeylAngle(x) == -2 * x

\* No circuit: the angle is within atol of zero.
Skipped == [ok |-> TRUE, value |-> [gates |-> <<>>, global_phase |-> 0]]

\* weyl_gate, the part for b: S-dagger on both qubits, the circuit, S on both.
SubCircuitB(b, atol, circ_b) ==
    IF Exceeds(b, atol)
    THEN [gates |-> OnBothQubits(OneQubitSequence(SDG_GATE)) \o circ_b.gates
                    \o OnBothQubits(OneQubitSequence(S_GATE)),
          global_phase |-> circ_b.global_phase
                           + 2 * OneQubitSequence(SDG_GATE).global_phase
                           + 2 * OneQubitSequence(S_GATE).global_phase]
    ELSE Skipped.value

\* weyl_gate, the part for c: H on both qubits, the circuit for |2 c| (inverted
\* gate by gate when -2 c > 0), H on both.
SubCircuitC(c, atol, circ_c) ==
    IF Exceeds(c, atol)
    THEN [gates |-> OnBothQubits(OneQubitSequence(H_GATE))
                    \o (IF WeylAngle(c) <= 0 THEN circ_c.gates
                        ELSE InvertedCircuit(circ_c.gates))
                    \o OnBothQubits(OneQubitSequence(H_GATE)),
          global_phase |-> (IF WeylAngle(c) <= 0 THEN circ_c.global_phase
                            ELSE -circ_c.global_phase)
                           + 4 * OneQubitSequence(H_GATE).global_phase]
    ELSE Skipped.value

\* weyl_gate(circ, target_decomposed, atol): the circuits for a, b and c are
\* appended to circ and its phase is overwritten; the first to_rxx_gate that
\* fails fails the call.
WeylGateOutcome(circ, target_decomposed, atol, circ_a, circ_b, circ_c) ==
    IF ~circ_a.ok THEN circ_a
    ELSE IF ~circ_b.ok THEN circ_b
    ELSE IF ~circ_c.ok THEN circ_c
    ELSE [ok |-> TRUE,
          value |->
             [gates |-> circ.gates \o circ_a.value.gates
                        \o SubCircuitB(target_decomposed.b, atol, circ_b.value).gates
                        \o SubCircuitC(target_decomposed.c, atol, circ_c.value).gates,
              global_phase |->
                 circ_a.value.global_phase
                 + SubCircuitB(target_decomposed.b, atol, circ_b.value).global_phase
                 + SubCircuitC(target_decomposed.c, atol, circ_c.value).global_phase]]
WeylAngles(target_decomposed, k) ==
    IF k = 1 THEN WeylAngle(target_decomposed.a)
    ELSE IF k = 2 THEN WeylAngle(target_decomposed.b)
    ELSE -Abs(WeylAngle(target_decomposed.c))
WeylGateOutcomes(circ, target_decomposed, atol, circs) ==
    {WeylGateOutcome(circ, target_decomposed, atol, circ_a[2], circ_b[2], circ_c[2]) :
        circ_a \in {x \in circs : x[1] = 1},
        circ_b \in {x \in circs : x[1] = 2},
        circ_c \in {x \in circs : x[1] = 3}}
WeylGate(self, circ, target_decomposed, atol, rule) ==
    UNION {WeylGateOutcomes(circ, target_decomposed, atol, circs) :
              circs \in {UNION {{<<k, x>> :
                             x \in (IF k = 1 \/ Exceeds(target_decomposed[<<"a", "b", "c">>[k]],
                                                       atol)
                                    THEN ToRxxGate(self, WeylAngles(target_decomposed, k),
                                                   rule)
                                    ELSE {Skipped})} : k \in 1..3}}}

\* atol.unwrap_or(DEFAULT_ATOL)
UnwrapOr(o, default) == IF IsSome(o) THEN o[1] ELSE default

\* TwoQubitControlledUDecomposer::call_inner after the canonicalization of the
\* target: K2r and K2l first, weyl_gate, K1r and K1l last.
CallInnerOutcome(target_decomposed, r) ==
    IF ~r.ok THEN r
    ELSE [ok |-> TRUE,
          value |->
             [gates |-> r.value.gates
                        \o Gates1q(OneQubitSequence(target_decomposed.K1r), 0)
                        \o Gates1q(OneQubitSequence(target_decomposed.K1l), 1),
              global_phase |->
                 target_decomposed.global_phase
                 + OneQubitSequence(target_decomposed.K2r).global_phase
                 + OneQubitSequence(target_decomposed.K2l).global_phase
                 + r.value.global_phase
                 + OneQubitSequence(target_decomposed.K1r).global_phase
                 + OneQubitSequence(target_decomposed.K1l).global_phase]]
ControlledUSequences(self, target_decomposed, atol, rule) ==
    {CallInnerOutcome(target_decomposed, r) :
        r \in WeylGate(self,
                       [gates |-> Gates1q(OneQubitSequence(target_decomposed.K2r), 0)
                                  \o Gates1q(OneQubitSequence(target_decomposed.K2l), 1),
                        global_phase |->
                           target_decomposed.global_phase
                           + OneQubitSequence(target_decomposed.K2r).global_phase
                           + OneQubitSequence(target_decomposed.K2l).global_phase],
                       target_decomposed, UnwrapOr(atol, DEFAULT_ATOL), rule)}

\* TwoQubitControlledUDecomposer::num_basis_gates_inner, after the
\* canonicalization.
NumBasisGatesControlledU(target_decomposed) ==
    (IF Exceeds(target_decomposed.a, DEFAULT_ATOL) THEN 1 ELSE 0)
    + (IF Exceeds(target_decomposed.b, DEFAULT_ATOL) THEN 1 ELSE 0)
    + (IF Exceeds(target_decomposed.c, DEFAULT_ATOL) THEN 1 ELSE 0)

\* call_inner and generate_sequence after the canonicalization of the target:
\* the call aborts (a panic of the fold, or unreachable!() in the dispatch on
\* best_nbasis), or returns an error of the chooser, the sequence of the
\* chooser, or the sequence built from the blocks.
SequenceResults(self, unitary_matrix, target_decomposed, best_nbasis) ==
    {IF sequence.kind = "error"
     THEN [ok |-> FALSE, error |-> sequence.error, best_nbasis |-> best_nbasis,
           target_decomposed |-> target_decomposed]
     ELSE [ok |-> TRUE,
           value |-> IF sequence.kind = "some" THEN sequence.value
                     ELSE GateSequence(self, target_decomposed, best_nbasis),
           best_nbasis |-> best_nbasis,
           target_decomposed |-> target_decomposed] :
        sequence \in (IF UnwrapOr(self.pulse_optimize, TRUE)
                      THEN PulseOptimalChooser(
                               self, best_nbasis,
                               Decomposition(self, target_decomposed, best_nbasis),
                               target_decomposed, unitary_matrix)
                      ELSE {[kind |-> "none"]})}
\* A variant of DispatchOutcomes with no arm for 3.
DispatchOutcomesToTwo(self, unitary_matrix, target_decomposed, best_nbasis) ==
    IF best_nbasis > 2 THEN {[aborted |-> TRUE]}
    ELSE {[aborted |-> FALSE, result |-> r] :
             r \in SequenceResults(self, unitary_matrix, target_decomposed, best_nbasis)}
DispatchOutcomes(self, unitary_matrix, target_decomposed, best_nbasis) ==
    IF best_nbasis > 3 THEN {[aborted |-> TRUE]}
    ELSE {[aborted |-> FALSE, result |-> r] :
             r \in SequenceResults(self, unitary_matrix, target_decomposed, best_nbasis)}
SynthesisOutcomes(self, op, num_basis_uses, basis_fidelity, approximate, unitary_matrix, target_decomposed) ==
    IF (IF op = "call_inner"
        THEN PanicsCallInner(num_basis_uses, SynthTraces(self, target_decomposed),
                             EffectiveBasisFidelity(self, basis_fidelity, approximate))
        ELSE PanicsGenerateSequence(num_basis_uses, SynthTraces(self, target_decomposed),
                                    EffectiveBasisFidelity(self, basis_fidelity,
                                                           approximate)))
    THEN {[aborted |-> TRUE]}
    ELSE DispatchOutcomes(
             self, unitary_matrix, target_decomposed,
             IF op = "call_inner"
             THEN BestNBasisCallInner(
                      num_basis_uses, SynthTraces(self, target_decomposed),
                      EffectiveBasisFidelity(self, basis_fidelity, approximate))
             ELSE BestNBasisGenerateSequence(
                      num_basis_uses, SynthTraces(self, target_decomposed),
                      EffectiveBasisFidelity(self, basis_fidelity, approximate)))

(***************************************************************************)
(* TwoQubitWeylDecomposition::circuit.                                     *)
(***************************************************************************)
\* euler_one_qubit_decomposer::ANGLE_ZERO_EPSILON, 1e-12, in angle units.
ANGLE_ZERO_EPSILON == 0

\* unitary_to_gate_sequence_inner(matrix, basis, qubit, None, simplify, atol):
\* without simplify the gates of the Euler basis are emitted for a multiple of
\* the identity as well; their product is the identity.
OneQubitSequenceOf(block, simplify) ==
    IF simplify \/ OneQubitSequence(block).gates # <<>>
    THEN OneQubitSequence(block)
    ELSE [gates |-> <<ONE_QUBIT_IDENTITY>>,
          global_phase |-> OneQubitSequence(block).global_phase]

StandardSwap == [gate |-> "swap", params |-> <<>>, qubits |-> <<0, 1>>]
StandardRotation(gate, angle) == [gate |-> gate, params |-> <<angle>>, qubits |-> <<0, 1>>]

\* TwoQubitWeylDecomposition::weyl_gate(simplify, sequence, atol,
\* global_phase): the gates pushed and what is added to the global phase.
WeylDecompositionGate(self, simplify, atol) ==
    IF self.specialization = "MirrorControlledEquiv"
    THEN [gates |-> <<StandardSwap, StandardRotation("rzz", (PI4 - self.c) * 2)>>,
          global_phase |-> PI4]
    ELSE IF self.specialization = "SWAPEquiv"
    THEN [gates |-> <<StandardSwap>>, global_phase |-> -((3 * PI) \div 4)]
    ELSE [gates |-> (IF ~simplify \/ Exceeds(self.a, atol)
                     THEN <<StandardRotation("rxx", -self.a * 2)>> ELSE <<>>)
                    \o (IF ~simplify \/ Exceeds(self.b, atol)
                        THEN <<StandardRotation("ryy", -self.b * 2)>> ELSE <<>>)
                    \o (IF ~simplify \/ Exceeds(self.c, atol)
                        THEN <<StandardRotation("rzz", -self.c * 2)>> ELSE <<>>),
          global_phase |-> 0]

\* A variant of CircuitPhase that adds the phase of each of the four one-qubit
\* decompositions once.
CircuitPhaseEachOnce(self, simplify, atol) ==
    self.global_phase
    + OneQubitSequenceOf(self.K2r, simplify).global_phase
    + OneQubitSequenceOf(self.K2l, simplify).global_phase
    + WeylDecompositionGate(self, simplify, UnwrapOr(atol, ANGLE_ZERO_EPSILON)).global_phase
    + OneQubitSequenceOf(self.K1r, simplify).global_phase
    + OneQubitSequenceOf(self.K1l, simplify).global_phase

\* global_phase of circuit: self.global_phase, += c2r.global_phase, += 
\* c2l.global_phase, weyl_gate's addition, += c2r.global_phase after the gates
\* of c1r; nothing is added after the gates of c1l.
CircuitPhase(self, simplify, atol) ==
    self.global_phase
    + OneQubitSequenceOf(self.K2r, simplify).global_phase
    + OneQubitSequenceOf(self.K2l, simplify).global_phase
    + WeylDecompositionGate(self, simplify, UnwrapOr(atol, ANGLE_ZERO_EPSILON)).global_phase
    + OneQubitSequenceOf(self.K2r, simplify).global_phase

\* TwoQubitWeylDecomposition::circuit(euler_basis, simplify, atol).
WeylCircuit(self, simplify, atol) ==
    [gates |-> Gates1q(OneQubitSequenceOf(self.K2r, simplify), 0)
               \o Gates1q(OneQubitSequenceOf(self.K2l, simplify), 1)
               \o WeylDecompositionGate(self, simplify,
                                        UnwrapOr(atol, ANGLE_ZERO_EPSILON)).gates
               \o Gates1q(OneQubitSequenceOf(self.K1r, simplify), 0)
               \o Gates1q(OneQubitSequenceOf(self.K1l, simplify), 1),
     global_phase |-> CircuitPhase(self, simplify, atol)]

(***************************************************************************)
(* State.                                                                  *)
(***************************************************************************)
VARIABLES
    pc,         \* where the call in flight stands; "idle" between calls
    call,       \* the operation in flight and its arguments
    trial,      \* the loop index i of the diagonalization loop
    rand_ab,    \* where the trial's coefficients rand_a, rand_b came from
    rng_draws,  \* samples drawn so far from the call's Pcg64Mcg state
    w,          \* cs, K1l, K1r, K2l, K2r, global_phase, conjs of new_inner
    dec,        \* the specialized TwoQubitWeylDecomposition being returned
    result,     \* what the call returned
    synth,      \* the TwoQubitBasisDecomposer constructed, Nil before
    suspended   \* pc .. result of a second caller's call while the first runs

vars == <<pc, call, trial, rand_ab, rng_draws, w, dec, result, synth, suspended>>

\* for i in 0..100
MaxTrials == 100

Nil == [nil |-> TRUE]

Specializations ==
    {"General", "IdEquiv", "SWAPEquiv", "PartialSWAPEquiv", "PartialSWAPFlipEquiv",
     "ControlledEquiv", "MirrorControlledEquiv", "fSimaabEquiv", "fSimabbEquiv",
     "fSimabmbEquiv"}

\* The locals of a caller between calls.
IdleCaller ==
    [pc |-> "idle", call |-> Nil, trial |-> 0, rand_ab |-> Nil, rng_draws |-> 0,
     w |-> Nil, dec |-> Nil, result |-> Nil]

Init ==
    /\ pc = "idle"
    /\ call = Nil
    /\ trial = 0
    /\ rand_ab = Nil
    /\ rng_draws = 0
    /\ w = Nil
    /\ dec = Nil
    /\ result = Nil
    /\ synth = Nil
    /\ suspended = IdleCaller

\* Pcg64Mcg::seed_from_u64(2023): the count of samples drawn from the state a
\* call seeds for itself.
RngSeed == 2023
SeedFromOtherCall(seed) == suspended.rng_draws
SeedFromU64(seed) == 0

\* TwoQubitWeylDecomposition::new_inner(unitary_matrix, fidelity, _specialization).
\* The matrix is given by what the numerical library finds for it: diag_ok, the
\* trials whose eigenvectors would pass the check; d, the halved negated phases
\* of the diagonal found; K, the factors the product decompositions return;
\* phase, arg(det)/4 + phase_l + phase_r.
NewInnerStart(targets, fidelities, forced) ==
    /\ pc = "idle"
    /\ \E t \in targets, f \in fidelities, s \in forced :
          call' = [op |-> "new_inner", target |-> t, fidelity |-> f, specialization |-> s]
    /\ pc' = "diag"
    /\ trial' = 0
    /\ rand_ab' = Nil
    /\ rng_draws' = SeedFromU64(RngSeed)
    /\ UNCHANGED <<suspended, synth, w, dec, result>>

\* Where trial i takes rand_a and rand_b from.
RandSource(i) == IF i = 0 THEN "fixed" ELSE "rng"

\* A variant of SamplesDrawn that samples the generator in every trial.
SamplesDrawnEveryTrial(i) == 2

\* The number of state.sample(StandardNormal) calls of trial i.
SamplesDrawn(i) == IF i = 0 THEN 0 ELSE 2

\* One trial of the diagonalization loop.
DiagTrial ==
    /\ pc = "diag"
    /\ rand_ab' = [source |-> RandSource(trial), trial |-> trial,
                   seed |-> RngSeed, drawn_before |-> rng_draws]
    /\ rng_draws' = rng_draws + SamplesDrawn(trial)
    /\ IF trial \in call.target.diag_ok
       THEN pc' = "found" /\ trial' = trial
       ELSE IF trial + 1 < MaxTrials
            THEN pc' = "diag" /\ trial' = trial + 1
            ELSE pc' = "notfound" /\ trial' = trial
    /\ UNCHANGED <<suspended, synth, call, w, dec, result>>

\* if !found { return Err(...) }
DiagFailed ==
    /\ pc = "notfound"
    /\ result' = [ok |-> FALSE, error |-> "failed to diagonalize M2"]
    /\ pc' = "done"
    /\ UNCHANGED <<suspended, synth, call, trial, rand_ab, rng_draws, w, dec>>

\* Sort the pairwise averages, split k1 and k2 into one-qubit factors.
SortAndSplit ==
    /\ pc = "found"
    /\ w' = [cs |-> SortedAngles(call.target.d),
             K1l |-> call.target.K[1], K1r |-> call.target.K[2],
             K2l |-> call.target.K[3], K2r |-> call.target.K[4],
             global_phase |-> call.target.phase, conjs |-> 0]
    /\ pc' = "chamber"
    /\ UNCHANGED <<suspended, synth, call, trial, rand_ab, rng_draws, dec, result>>

\* Flip into the Weyl chamber.
Chamber ==
    /\ pc = "chamber"
    /\ w' = WeylChamber(w)
    /\ pc' = "specialize"
    /\ UNCHANGED <<suspended, synth, call, trial, rand_ab, rng_draws, dec, result>>

\* Choose the specialization and rewrite the record.
Specialize ==
    /\ pc = "specialize"
    /\ \E general \in {GeneralRecord(w, call.fidelity)} :
       \E sp \in {ChooseSpecialization(general.a, general.b, general.c,
                                       call.fidelity, call.specialization)} :
       \E k2l \in AnglesFromUnitary(general.K2l, EulerBasisOf(sp)) :
       \E k2r \in (IF sp \in {"ControlledEquiv", "MirrorControlledEquiv"}
                   THEN AnglesFromUnitary(general.K2r, EulerBasisOf(sp))
                   ELSE {NoAngles}) :
          dec' = Specialized(general, sp, k2l, k2r)
    /\ pc' = "check"
    /\ UNCHANGED <<suspended, synth, call, trial, rand_ab, rng_draws, w, result>>

\* Compute the achieved fidelity, fail if it is below the request, else fold
\* the trace's phase into the global phase and return the record: to the
\* caller, or to the synthesizer operation that asked for it.
FidelityCheck ==
    /\ pc = "check"
    /\ LET tr == SpecializedTrace(GeneralRecord(w, call.fidelity), dec)
           calculated == TraceToFid(tr)
       IN  IF FidelityBelowRequest(calculated, dec.requested_fidelity)
           THEN /\ result' = [ok |-> FALSE, error |-> "fidelity",
                              specialization |-> dec.specialization,
                              calculated_fidelity |-> calculated]
                /\ pc' = "done"
           ELSE /\ result' = [ok |-> TRUE,
                              value |-> [dec EXCEPT !.calculated_fidelity = calculated,
                                                    !.global_phase = @ + ArgOf(tr)]]
                /\ pc' = IF call.op = "new_inner" THEN "done"
                         ELSE IF call.op = "basis_new_inner" THEN "construct"
                         ELSE IF call.op = "circuit" THEN "circuit"
                         ELSE "synthesize"
    /\ UNCHANGED <<suspended, synth, call, trial, rand_ab, rng_draws, w, dec>>

ReturnRetaining ==
    /\ pc = "done"
    /\ pc' = "idle"
    /\ call' = Nil
    /\ trial' = 0
    /\ rand_ab' = Nil
    /\ rng_draws' = 0
    /\ w' = Nil
    /\ dec' = Nil
    /\ result' = Nil
    /\ synth' = IF synth = Nil THEN synth
                ELSE [f \in DOMAIN synth \cup {"retained"} |->
                         IF f = "retained" THEN result ELSE synth[f]]
    /\ UNCHANGED suspended

\* The call returns to its caller.
Return ==
    /\ pc = "done"
    /\ pc' = "idle"
    /\ call' = Nil
    /\ trial' = 0
    /\ rand_ab' = Nil
    /\ rng_draws' = 0
    /\ w' = Nil
    /\ dec' = Nil
    /\ result' = Nil
    /\ UNCHANGED <<suspended, synth>>


SwitchSharingResult ==
    /\ synth # Nil
    /\ suspended' = [pc |-> pc, call |-> call, trial |-> trial, rand_ab |-> rand_ab,
                     rng_draws |-> rng_draws, w |-> w, dec |-> dec, result |-> result]
    /\ pc' = suspended.pc
    /\ call' = suspended.call
    /\ trial' = suspended.trial
    /\ rand_ab' = suspended.rand_ab
    /\ rng_draws' = suspended.rng_draws
    /\ w' = suspended.w
    /\ dec' = suspended.dec
    /\ UNCHANGED <<synth, result>>

\* Two callers share the synthesizer by reference (&self): the scheduler takes
\* the running caller off at any step of its call and lets the other one run.
\* Every local of a call lives in the caller's own frame.
Switch ==
    /\ synth # Nil
    /\ suspended' = [pc |-> pc, call |-> call, trial |-> trial, rand_ab |-> rand_ab,
                     rng_draws |-> rng_draws, w |-> w, dec |-> dec, result |-> result]
    /\ pc' = suspended.pc
    /\ call' = suspended.call
    /\ trial' = suspended.trial
    /\ rand_ab' = suspended.rand_ab
    /\ rng_draws' = suspended.rng_draws
    /\ w' = suspended.w
    /\ dec' = suspended.dec
    /\ result' = suspended.result
    /\ UNCHANGED synth

\* weyl_coordinates(unitary) and _num_basis_gates(basis_b, basis_fidelity,
\* unitary): the matrix is scaled to determinant one and taken out of the magic
\* basis, and the eigenvalues of uup^T uup are computed.
CoordinatesStart(ops, unitaries, basis_bs, basis_fidelities) ==
    /\ pc = "idle"
    /\ \E op \in ops, u \in unitaries, bb \in basis_bs, f \in basis_fidelities :
          call' = [op |-> op, abc |-> u, unitary |-> Ud(u[1], u[2], u[3]),
                   basis_b |-> bb, basis_fidelity |-> f]
    /\ pc' = "eigenvalues"
    /\ UNCHANGED <<suspended, synth, trial, rand_ab, rng_draws, w, dec, result>>

\* darg of the eigenvalues, in the order the eigenvalue routine lists them.
Eigenvalues ==
    /\ pc = "eigenvalues"
    /\ \E uscaled \in Uscaled(call.unitary) :
          LET uup == magic_basis_transform(uscaled, "OutOf")
          IN  \E eigs \in ComplexEigenvalues(Dot(Transpose(uup), uup)) :
              \E darg \in Dargs(eigs) :
                  w' = [darg |-> darg]
    /\ pc' = "coordinates"
    /\ UNCHANGED <<suspended, synth, call, trial, rand_ab, rng_draws, dec, result>>

\* The rest of __weyl_coordinates, and of __num_basis_gates for that call.
Coordinates ==
    /\ pc = "coordinates"
    /\ LET abc == WeylCoordinates(w.darg)
       IN  IF call.op = "weyl_coordinates"
           THEN result' = [ok |-> TRUE, value |-> abc]
           ELSE result' = [ok |-> TRUE, coordinates |-> abc,
                           value |-> BestNBasis(BasisTraces(abc[1], abc[2], abc[3],
                                                            call.basis_b),
                                                call.basis_fidelity)]
    /\ pc' = "done"
    /\ UNCHANGED <<suspended, synth, call, trial, rand_ab, rng_draws, w, dec>>

\* TwoQubitBasisDecomposer::new_inner(gate, gate_params, gate_matrix,
\* basis_fidelity, euler_basis, pulse_optimize): the gate matrix is canonicalized
\* with the default fidelity first.
ConstructStart(gates, basis_fidelities, euler_bases, pulse_optimizes) ==
    /\ pc = "idle"
    /\ synth = Nil
    /\ \E g \in gates, f \in basis_fidelities, e \in euler_bases, po \in pulse_optimizes :
          call' = [op |-> "basis_new_inner", gate |-> g.name, target |-> g.target,
                   fidelity |-> Some(DEFAULT_FIDELITY), specialization |-> None,
                   basis_fidelity |-> f, euler_basis |-> e, pulse_optimize |-> po]
    /\ pc' = "diag"
    /\ trial' = 0
    /\ rand_ab' = Nil
    /\ rng_draws' = SeedFromU64(RngSeed)
    /\ UNCHANGED <<suspended, synth, w, dec, result>>

\* The rest of TwoQubitBasisDecomposer::new_inner: the synthesizer is built.
Construct ==
    /\ pc = "construct"
    /\ synth' = BasisDecomposer(call.gate, result.value, call.basis_fidelity,
                                call.euler_basis, call.pulse_optimize)
    /\ pc' = "idle"
    /\ call' = Nil
    /\ trial' = 0
    /\ rand_ab' = Nil
    /\ rng_draws' = 0
    /\ w' = Nil
    /\ dec' = Nil
    /\ result' = Nil
    /\ UNCHANGED suspended

\* call_inner and generate_sequence(unitary, basis_fidelity, approximate,
\* _num_basis_uses): the target is canonicalized with the default fidelity first.
SynthesizeStart(ops, targets, basis_fidelities, approximates, uses) ==
    /\ pc = "idle"
    /\ synth # Nil
    /\ "basis_decomposer" \in DOMAIN synth
    /\ \E op \in ops, t \in targets, f \in basis_fidelities, ap \in approximates,
          n \in uses :
          call' = [op |-> op, target |-> t,
                   fidelity |-> Some(DEFAULT_FIDELITY), specialization |-> None,
                   basis_fidelity |-> f, approximate |-> ap, num_basis_uses |-> n]
    /\ pc' = "diag"
    /\ trial' = 0
    /\ rand_ab' = Nil
    /\ rng_draws' = SeedFromU64(RngSeed)
    /\ UNCHANGED <<suspended, synth, w, dec, result>>

\* The rest of call_inner and generate_sequence: the count of basis gates is
\* chosen, the dispatch on it aborts for a count above 3, the pulse-optimal
\* chooser is asked, and the sequence is built from the one-qubit blocks.
Synthesize ==
    /\ pc = "synthesize"
    /\ "basis_decomposer" \in DOMAIN synth
    /\ \E outcome \in SynthesisOutcomes(synth, call.op, call.num_basis_uses,
                                         call.basis_fidelity, call.approximate,
                                         UnitaryOf(call.target), result.value) :
          IF outcome.aborted
          THEN pc' = "aborted" /\ result' = result
          ELSE pc' = "done" /\ result' = outcome.result
    /\ UNCHANGED <<suspended, synth, call, trial, rand_ab, rng_draws, w, dec>>

\* num_basis_gates_inner(unitary): __num_basis_gates with the synthesizer's
\* basis angle and basis fidelity.
NumBasisGatesInnerStart(unitaries) ==
    /\ pc = "idle"
    /\ synth # Nil
    /\ "basis_decomposer" \in DOMAIN synth
    /\ \E u \in unitaries :
          call' = [op |-> "num_basis_gates", abc |-> u, unitary |-> Ud(u[1], u[2], u[3]),
                   basis_b |-> synth.basis_decomposer.b,
                   basis_fidelity |-> synth.basis_fidelity]
    /\ pc' = "eigenvalues"
    /\ UNCHANGED <<suspended, synth, trial, rand_ab, rng_draws, w, dec, result>>

\* TwoQubitControlledUDecomposer::new_inner(rxx_equivalent_gate, euler_basis):
\* the test angles are probed in order.
ControlledUConstructStart(gates, euler_bases) ==
    /\ pc = "idle"
    /\ synth = Nil
    /\ \E g \in gates, e \in euler_bases :
          call' = [op |-> "controlled_u_new_inner", gate |-> g, euler_basis |-> e]
    /\ pc' = "probe"
    /\ trial' = 0
    /\ w' = [scales |-> <<>>]
    /\ UNCHANGED <<suspended, synth, rand_ab, rng_draws, dec, result>>

\* The closure for the test angle at index trial: its error ends the
\* construction (collect::<PyResult<Vec<f64>>>()?), else its scale is kept.
ControlledUProbe ==
    /\ pc = "probe"
    /\ \E o \in ProbeScale(call.gate, TestAngles[trial + 1]) :
          IF o.ok
          THEN /\ w' = [scales |-> Append(w.scales, o.scale_a)]
               /\ trial' = trial + 1
               /\ pc' = IF trial + 1 = Len(TestAngles) THEN "scales" ELSE "probe"
               /\ result' = result
          ELSE /\ result' = o
               /\ pc' = "done"
               /\ UNCHANGED <<w, trial>>
    /\ UNCHANGED <<suspended, synth, call, rand_ab, rng_draws, dec>>

\* The check of the scales against the first one, and Ok(TwoQubitControlledUDecomposer
\* { scale, rxx_equivalent_gate, euler_basis }).
ControlledUConstruct ==
    /\ pc = "scales"
    /\ IF InconsistentScales(w.scales)
       THEN /\ result' = [ok |-> FALSE,
                          error |-> "Inconsistent scaling parameters in check."]
            /\ pc' = "done"
            /\ UNCHANGED <<synth, call, trial, w>>
       ELSE /\ synth' = [scale |-> w.scales[1], rxx_equivalent_gate |-> call.gate,
                         euler_basis |-> call.euler_basis]
            /\ pc' = "idle"
            /\ call' = Nil
            /\ trial' = 0
            /\ w' = Nil
            /\ result' = Nil
    /\ UNCHANGED <<suspended, rand_ab, rng_draws, dec>>

\* TwoQubitControlledUDecomposer::call_inner(unitary, atol) and
\* num_basis_gates_inner(unitary): the target is canonicalized with the default
\* fidelity first.  rule names the Euler angles the one-qubit routine returns
\* inside to_rxx_gate.
ControlledUSynthesizeStart(ops, targets, atols, rules) ==
    /\ pc = "idle"
    /\ synth # Nil
    /\ "rxx_equivalent_gate" \in DOMAIN synth
    /\ \E op \in ops, t \in targets, at \in atols, rule \in rules :
          call' = [op |-> op, target |-> t,
                   fidelity |-> Some(DEFAULT_FIDELITY), specialization |-> None,
                   atol |-> at, rule |-> rule]
    /\ pc' = "diag"
    /\ trial' = 0
    /\ rand_ab' = Nil
    /\ rng_draws' = SeedFromU64(RngSeed)
    /\ UNCHANGED <<suspended, synth, w, dec, result>>

\* The rest of call_inner (the sequence around weyl_gate) and of
\* num_basis_gates_inner (the count of the angles above DEFAULT_ATOL).
ControlledUSynthesize ==
    /\ pc = "synthesize"
    /\ "rxx_equivalent_gate" \in DOMAIN synth
    /\ \E target_decomposed \in {result.value} :
          IF call.op = "controlled_u_num_basis_gates"
          THEN result' = [ok |-> TRUE,
                          value |-> NumBasisGatesControlledU(target_decomposed),
                          target_decomposed |-> target_decomposed]
          ELSE \E r \in ControlledUSequences(synth, target_decomposed, call.atol,
                                              call.rule) :
                  result' = IF r.ok
                            THEN [ok |-> TRUE, value |-> r.value,
                                  target_decomposed |-> target_decomposed]
                            ELSE [ok |-> FALSE, error |-> r.error,
                                  target_decomposed |-> target_decomposed]
    /\ pc' = "done"
    /\ UNCHANGED <<suspended, synth, call, trial, rand_ab, rng_draws, w, dec>>

\* decompose_two_qubit_product_gate(special_unitary).
ProductGateStart(matrices) ==
    /\ pc = "idle"
    /\ \E m \in matrices :
          call' = [op |-> "decompose_two_qubit_product_gate", special_unitary |-> m]
    /\ pc' = "product"
    /\ UNCHANGED <<suspended, synth, trial, rand_ab, rng_draws, w, dec, result>>

ProductGate ==
    /\ pc = "product"
    /\ result' = DecomposeTwoQubitProductGate(call.special_unitary)
    /\ pc' = "done"
    /\ UNCHANGED <<suspended, synth, call, trial, rand_ab, rng_draws, w, dec>>

\* TwoQubitWeylDecomposition(unitary, fidelity, specialization)
\* .circuit(simplify = simplify, atol = atol): the record is built by
\* new_inner, then circuit runs on it.
CircuitStart(targets, fidelities, forced, simplifies, atols) ==
    /\ pc = "idle"
    /\ \E t \in targets, f \in fidelities, s \in forced, simplify \in simplifies,
          atol \in atols :
          call' = [op |-> "circuit", target |-> t, fidelity |-> f, specialization |-> s,
                   simplify |-> simplify, atol |-> atol]
    /\ pc' = "diag"
    /\ trial' = 0
    /\ rand_ab' = Nil
    /\ rng_draws' = SeedFromU64(RngSeed)
    /\ UNCHANGED <<suspended, synth, w, dec, result>>

Circuit ==
    /\ pc = "circuit"
    /\ result' = [ok |-> TRUE,
                  value |-> WeylCircuit(result.value, call.simplify, call.atol),
                  decomposition |-> result.value]
    /\ pc' = "done"
    /\ UNCHANGED <<suspended, synth, call, trial, rand_ab, rng_draws, w, dec>>

\* exp(i global_phase) (K1l (x) K1r) Ud(a, b, c) (K2l (x) K2r) of a record.
Reconstruct(r) ==
    ScalarMul(ExpI(r.global_phase),
              Dot(Dot(Kron(r.K1l, r.K1r), Ud(r.a, r.b, r.c)), Kron(r.K2l, r.K2r)))

\* Every angle of the record is on the lattice of the exact matrices.
OnLatticeRecord(r) ==
    OnLattice(r.a) /\ OnLattice(r.b) /\ OnLattice(r.c) /\ OnLattice(r.global_phase)

(***************************************************************************)
(* Inputs.                                                                 *)
(***************************************************************************)

\* The eigenphase halves d[0..2] the diagonalization can hand over: -arg/2 lies
\* in [-pi/2, pi/2]; taken on the multiples of pi/4.
DValues == {k * PI4 : k \in -2..2}
DTriples == [0..2 -> DValues]
\* The same on the multiples of pi/8.
FineDValues == {k * PI8 : k \in -4..4}
FineDTriples == [0..2 -> FineDValues]

Fidelities == {None, Some(75 * (Scale \div 100)), Some(DEFAULT_FIDELITY)}
ForcedSpecializations == {None} \cup {Some(s) : s \in Specializations}

\* Canonicalization with every requested fidelity: of every eigenphase triple
\* with no specialization forced, and of a part of the triples with every
\* specialization forced; one matrix that needs a retry and one that cannot be
\* diagonalized.
WeylTargets ==
    {Target({0}, d, KQuarterTurns, 0) : d \in FineDTriples}
    \cup {Target({2, 5}, [i \in 0..2 |-> PI4], KQuarterTurns, 0),
          Target({}, [i \in 0..2 |-> 0], KQuarterTurns, 0)}
ForcedTargets ==
    {Target({0}, d, KQuarterTurns, 0) :
        d \in {e \in FineDTriples : e[2] \in {0, PI8} /\ e[1] >= 0}}

NextWeyl ==
    \/ NewInnerStart(WeylTargets, Fidelities, {None})
    \/ NewInnerStart(ForcedTargets, Fidelities, ForcedSpecializations \ {None})
    \/ DiagTrial
    \/ DiagFailed
    \/ SortAndSplit
    \/ Chamber
    \/ Specialize
    \/ FidelityCheck
    \/ Return

SpecWeyl == Init /\ [][NextWeyl]_vars


\* Canonicalization of every eigenphase triple, with no fidelity, a loose one
\* and the default one, unforced and forced to IdEquiv.
ReconTargets == {Target({0}, d, KQuarterTurns, PI4) : d \in DTriples}

NextRecon ==
    \/ NewInnerStart(ReconTargets, Fidelities, {None, Some("IdEquiv")})
    \/ DiagTrial
    \/ SortAndSplit
    \/ Chamber
    \/ Specialize
    \/ FidelityCheck
    \/ Return

SpecRecon == Init /\ [][NextRecon]_vars

\* The outcomes of the diagonalization loop: no trial passes, or two trials do.
DiagOutcomes == {{}} \cup {{k, k + 3} \cap (0..(MaxTrials - 1)) : k \in 0..(MaxTrials - 1)}
DiagTargets == {Target(ok, [i \in 0..2 |-> PI4], KQuarterTurns, 0) : ok \in DiagOutcomes}

NextDiag ==
    \/ NewInnerStart(DiagTargets, {None}, {None})
    \/ DiagTrial
    \/ DiagFailed
    \/ SortAndSplit
    \/ Chamber
    \/ Specialize
    \/ FidelityCheck
    \/ Return

\* The loop is sequential code: a trial that can run does run.
SpecDiag == Init /\ [][NextDiag]_vars /\ WF_vars(DiagTrial)

\* The points of the Weyl chamber pi/4 >= a >= b >= |c| with a and b multiples
\* of pi/16 and a + b, a - b and c on the lattice, where Ud is exact.
ChamberPoints ==
    {p \in {k * (PI8 \div 2) : k \in 0..4} \X {k * (PI8 \div 2) : k \in 0..4}
           \X {k * PI8 : k \in -2..2} :
        /\ p[1] >= p[2] /\ p[2] >= Abs(p[3])
        /\ OnLattice(p[1] + p[2]) /\ OnLattice(p[1] - p[2])}

\* The basis gate's angle b and the basis fidelities 0.0, 0.1, .., 1.0.
BasisAngles == {0, PI8, PI4}
BasisFidelities == 0..FidelitySteps

\* Weyl coordinates of Ud(a, b, c) for every point of the chamber.
NextCoords ==
    \/ CoordinatesStart({"weyl_coordinates"}, ChamberPoints, {0}, {FidelitySteps})
    \/ Eigenvalues
    \/ Coordinates
    \/ Return

SpecCoords == Init /\ [][NextCoords]_vars

\* The number of basis gates for Ud(a, b, c), every basis angle and fidelity.
NextCount ==
    \/ CoordinatesStart({"num_basis_gates"}, ChamberPoints, BasisAngles, BasisFidelities)
    \/ Eigenvalues
    \/ Coordinates
    \/ Return

SpecCount == Init /\ [][NextCount]_vars

\* What the numerical steps find for CX_GATE and for the identity: the targets
\* below whose matrix is exactly that one.
KHalf == Mat2(1, Gaussian(1, -1), Gaussian(1, 1), Gaussian(-1, 1), Gaussian(1, 1))
CXTargets ==
    {t \in {Target({0}, [i \in 0..2 |-> IF i = 2 THEN -PI4 ELSE PI4],
                   <<RxMatrix(PI), RyMatrix(PI2), RxMatrix(-PI2), KHalf>>, PI4)} :
        UnitaryOf(t) = CX_GATE}
IdentityTargets ==
    {t \in {Target({0}, [i \in 0..2 |-> 0],
                   <<TransposeConjugate(KHalf), TransposeConjugate(KHalf), KHalf, KHalf>>, 0),
            Target({0}, [i \in 0..2 |-> 0],
                   <<RxMatrix(PI2), RyMatrix(PI2), RxMatrix(-PI2), RyMatrix(-PI2)>>, 0)} :
        UnitaryOf(t) = TWO_QUBIT_IDENTITY}

\* Targets with canonical angles on the lattice.
SynthDTriples ==
    {d \in FineDTriples :
        /\ \A i \in 0..2 : OnLattice(PairAverages(WithLast(d))[i])
        /\ d[0] >= d[1] /\ d[1] >= d[2] /\ d[1] >= 0 /\ d[0] <= PI4}
SynthTargets ==
    CXTargets \cup IdentityTargets
    \cup {Target({0}, d, KQuarterTurns, 0) : d \in SynthDTriples}

\* The basis gates: CX, and a gate with the angles (pi/4, pi/4, 0).
BasisGates ==
    {[name |-> "cx", target |-> t] : t \in CXTargets}
    \cup {[name |-> "other",
           target |-> Target({0}, [i \in 0..2 |-> IF i = 0 THEN PI2 ELSE 0],
                             KQuarterTurns, 0)]}

\* The targets whose count of uses is forced: CX, the identity and a target
\* that takes three uses of CX.
ForcedUseTargets ==
    CXTargets \cup IdentityTargets
    \cup {Target({0}, [i \in 0..2 |-> IF i = 0 THEN PI4 ELSE PI8], KQuarterTurns, 0)}

\* Synthesis over both basis gates: of every target, exact and approximate,
\* with the count of uses free; of a part of the targets with the count forced.
NextSynth ==
    \/ ConstructStart(BasisGates, {FidelitySteps - 1}, {"U"}, {None})
    \/ Construct
    \/ SynthesizeStart({"call_inner", "generate_sequence"}, SynthTargets,
                       {None, Some(FidelitySteps \div 2)}, BOOLEAN, {None})
    \/ SynthesizeStart({"call_inner", "generate_sequence"}, ForcedUseTargets,
                       {None}, {FALSE}, {Some(n) : n \in 0..4})
    \/ NumBasisGatesInnerStart({p \in ChamberPoints : OnLattice(p[1])})
    \/ DiagTrial
    \/ SortAndSplit
    \/ Chamber
    \/ Specialize
    \/ FidelityCheck
    \/ Synthesize
    \/ Eigenvalues
    \/ Coordinates
    \/ Return

SpecSynth == Init /\ [][NextSynth]_vars

\* Synthesis with the pulse-optimal chooser: both basis gates, the Euler bases
\* U and ZSX, pulse_optimize unset, true and false, exact and approximate.
PulseDTriples ==
    {[i \in 0..2 |-> IF i = 2 THEN -PI8 ELSE PI8], [i \in 0..2 |-> PI8],
     [i \in 0..2 |-> IF i = 2 THEN 0 ELSE PI4]}
PulseTargets ==
    CXTargets \cup IdentityTargets
    \cup {Target({0}, d, KQuarterTurns, 0) : d \in PulseDTriples}
NextPulse ==
    \/ ConstructStart(BasisGates, {FidelitySteps - 1}, {"U", "ZSX"},
                      {None, Some(TRUE), Some(FALSE)})
    \/ Construct
    \/ SynthesizeStart({"call_inner"}, PulseTargets, {None}, BOOLEAN, {None})
    \/ DiagTrial
    \/ SortAndSplit
    \/ Chamber
    \/ Specialize
    \/ FidelityCheck
    \/ Return
    \/ Synthesize

SpecPulse == Init /\ [][NextPulse]_vars

\* Two callers of one synthesizer, their calls interleaved step by step; a
\* target may need several trials of the diagonalization.
CallerTargets ==
    CXTargets \cup IdentityTargets
    \cup {Target({n}, [i \in 0..2 |-> PI8], KQuarterTurns, 0) : n \in {0, 2}}
NextCallers ==
    \/ ConstructStart({g \in BasisGates : g.name = "other"}, {FidelitySteps - 1},
                      {"U"}, {None})
    \/ Construct
    \/ SynthesizeStart({"call_inner"}, CallerTargets, {None}, {FALSE}, {None})
    \/ DiagTrial
    \/ SortAndSplit
    \/ Chamber
    \/ Specialize
    \/ FidelityCheck
    \/ Synthesize
    \/ Return
    \/ Switch

SpecCallers == Init /\ [][NextCallers]_vars

\* The Controlled-U synthesizer: construction from every gate family, synthesis
\* and count of RXX(pi/3) and of targets with one, two and three angles above
\* atol, c of either sign.
ControlledUGates ==
    {[name |-> n, num_params |-> 1] :
        n \in {"rxx", "rxx_half", "rxx_weak", "rxx_kinked", "xx_plus_yy",
               "rxx_positive", "rxx_turned"}}
    \cup {[name |-> "xx_plus_yy_beta", num_params |-> 2]}
ControlledUDTriples ==
    {<<0, 0, 0>>, <<TestAngles[1], 0, TestAngles[1] \div 2>>,
     <<TestAngles[1], 0, -(TestAngles[1] \div 2)>>,
     <<TestAngles[1], TestAngles[1] \div 2, -(TestAngles[1] \div 2)>>}
ControlledUTargets ==
    {RxxTarget(PI \div 3), [RxxTarget(PI \div 3) EXCEPT !.diag_ok = {}]}
    \cup {Target({0}, [i \in 0..2 |-> d[i + 1]], KQuarterTurns, 0) :
             d \in ControlledUDTriples}
Atols == {None, Some((3 * AngleUnit * Scale) \div 40)}
NextControlledU ==
    \/ ControlledUConstructStart(ControlledUGates, {"ZXZ", "U"})
    \/ ControlledUProbe
    \/ ControlledUConstruct
    \/ ControlledUSynthesizeStart({"controlled_u_call_inner"}, ControlledUTargets,
                                  Atols, {"phi", "lambda"})
    \/ ControlledUSynthesizeStart({"controlled_u_num_basis_gates"},
                                  ControlledUTargets, {None}, {"phi"})
    \/ DiagTrial
    \/ DiagFailed
    \/ SortAndSplit
    \/ Chamber
    \/ Specialize
    \/ FidelityCheck
    \/ ControlledUSynthesize
    \/ Return

SpecControlledU == Init /\ [][NextControlledU]_vars

\* Both synthesizers, one constructed per behaviour: every operation of each,
\* with targets that succeed and targets and synthesizers that make it fail.
FrameTargets ==
    IdentityTargets
    \cup {Target(ok, d, KQuarterTurns, 0) : ok \in {{0}, {}}, d \in PulseDTriples}
NextFrames ==
    \/ ConstructStart({g \in BasisGates : g.name = "other"}, {FidelitySteps - 1},
                      {"U"}, {None, Some(TRUE)})
    \/ Construct
    \/ ControlledUConstructStart({g \in ControlledUGates :
                                    g.name \in {"rxx", "rxx_positive", "rxx_kinked"}},
                                 {"ZXZ"})
    \/ ControlledUProbe
    \/ ControlledUConstruct
    \/ SynthesizeStart({"call_inner", "generate_sequence"}, FrameTargets, {None},
                       {FALSE}, {None})
    \/ NumBasisGatesInnerStart({p \in ChamberPoints : OnLattice(p[1])})
    \/ ControlledUSynthesizeStart({"controlled_u_call_inner",
                                   "controlled_u_num_basis_gates"},
                                  FrameTargets, {None}, {"phi"})
    \/ DiagTrial
    \/ DiagFailed
    \/ SortAndSplit
    \/ Chamber
    \/ Specialize
    \/ FidelityCheck
    \/ Synthesize
    \/ ControlledUSynthesize
    \/ Eigenvalues
    \/ Coordinates
    \/ Return

SpecFrames == Init /\ [][NextFrames]_vars

\* The product decomposition: determinant magnitudes around the thresholds 0.1
\* and 0.9.  The blocks of a unitary have singular values cos and sin of two
\* angles, so the two magnitudes add up to 1 at most.
DetMagnitudes ==
    {0, Scale \div 10 - 1, Scale \div 10, 2 * (Scale \div 10), 8 * (Scale \div 10),
     9 * (Scale \div 10) - 1, 9 * (Scale \div 10), Scale}
ProductMatrices ==
    {[det_top_left |-> t, det_bottom_left |-> b,
      det_l |-> [k \in {"top-left", "bottom-left"} |->
                    IF k = "top-left" THEN lt ELSE lb]] :
        t \in DetMagnitudes, b \in {x \in DetMagnitudes : x <= Scale},
        lt \in {9 * (Scale \div 10) - 1, Scale}, lb \in {9 * (Scale \div 10) - 1, Scale}}
NextProduct ==
    \/ ProductGateStart({m \in ProductMatrices :
                            m.det_top_left + m.det_bottom_left <= Scale})
    \/ ProductGate
    \/ Return

SpecProduct == Init /\ [][NextProduct]_vars

\* Circuits of canonicalized matrices: one-qubit factors that are quarter
\* turns, and factors that are the identity or its negative, as the product
\* decomposition returns them for k1 or k2 equal to the identity or its
\* negative.
KSigned(s1l, s1r, s2l, s2r) ==
    [i \in 1..4 |->
        IF <<s1l, s1r, s2l, s2r>>[i] THEN ScalarMul(C_M_ONE, ONE_QUBIT_IDENTITY)
        ELSE ONE_QUBIT_IDENTITY]
CircuitTargets ==
    {Target({0}, d, K, 0) :
        d \in DTriples,
        K \in {KQuarterTurns, KSigned(FALSE, FALSE, FALSE, FALSE),
               KSigned(FALSE, FALSE, FALSE, TRUE), KSigned(TRUE, FALSE, FALSE, FALSE),
               KSigned(FALSE, TRUE, FALSE, TRUE)}}

NextCircuit ==
    \/ CircuitStart(CircuitTargets, {None, Some(DEFAULT_FIDELITY)}, {None},
                    BOOLEAN, Atols)
    \/ DiagTrial
    \/ SortAndSplit
    \/ Chamber
    \/ Specialize
    \/ FidelityCheck
    \/ Circuit
    \/ Return

SpecCircuit == Init /\ [][NextCircuit]_vars

SynthOps == {"call_inner", "generate_sequence"}

\* call_inner and generate_sequence side by side on CX, the identity and a
\* target that takes three uses of CX: with the count free, and forced for the
\* synthesizers with Euler basis U; the basis fidelity left out, given, and
\* given as NaN.
NextEquivalence ==
    \/ ConstructStart(BasisGates, {FidelitySteps - 1}, {"U", "ZSX"}, {None})
    \/ Construct
    \/ SynthesizeStart(SynthOps, ForcedUseTargets,
                       {None, Some(FidelitySteps \div 2), Some(NAN)}, BOOLEAN, {None})
    \/ /\ "euler_basis" \in DOMAIN synth
       /\ synth.euler_basis = "U"
       /\ SynthesizeStart(SynthOps, ForcedUseTargets, {None, Some(NAN)}, {TRUE},
                          {Some(n) : n \in 0..4})
    \/ DiagTrial
    \/ SortAndSplit
    \/ Chamber
    \/ Specialize
    \/ FidelityCheck
    \/ Synthesize
    \/ Return

SpecEquivalence == Init /\ [][NextEquivalence]_vars

(***************************************************************************)
(* Properties.                                                             *)
(***************************************************************************)

\* C1 (as amended): a record returned with calculated fidelity 1 (always so for
\* the specialization General) reproduces the matrix exactly:
\* exp(i global_phase) (K1l (x) K1r) Ud(a, b, c) (K2l (x) K2r) = unitary_matrix.
C1_ReconstructsWhenExact ==
    (pc = "done" /\ result.ok /\ OnLatticeRecord(result.value)
       /\ result.value.calculated_fidelity = Scale)
    => Reconstruct(result.value) = UnitaryOf(call.target)

\* An exact record is returned after the chamber flips conjugated the
\* one-qubit factors and the specialization rebuilt them from Euler angles.
C1_Witness ==
    /\ pc = "done" /\ result.ok
    /\ OnLatticeRecord(result.value)
    /\ result.value.calculated_fidelity = Scale
    /\ result.value.specialization = "fSimabmbEquiv"
    /\ w.conjs = 1

\* C1 as stated: every record returned reproduces the matrix.
C1_ReconstructsAlways ==
    (pc = "done" /\ result.ok /\ OnLatticeRecord(result.value))
    => Reconstruct(result.value) = UnitaryOf(call.target)

\* C2: a General record has pi/4 >= a >= b >= |c| >= 0, an IdEquiv record has
\* a = b = c = 0 and a SWAPEquiv record has a = b = c = pi/4.
C2_ChamberAngles ==
    (pc = "done" /\ result.ok)
    => LET r == result.value
       IN  /\ r.specialization = "General"
                => (PI4 >= r.a /\ r.a >= r.b /\ r.b >= Abs(r.c) /\ Abs(r.c) >= 0)
           /\ r.specialization = "IdEquiv" => (r.a = 0 /\ r.b = 0 /\ r.c = 0)
           /\ r.specialization = "SWAPEquiv" => (r.a = PI4 /\ r.b = PI4 /\ r.c = PI4)

\* A General record with a negative c whose angles went through a conjugating flip.
C2_Witness ==
    /\ pc = "done" /\ result.ok
    /\ result.value.specialization = "General"
    /\ w.conjs = 1
    /\ result.value.c < 0
    /\ result.value.b > 0

\* C8 (as amended): with a requested fidelity the call fails with the fidelity
\* error exactly when the achieved fidelity is below the request by more than
\* the tolerance, the achieved fidelity being that of the differences between
\* the chamber angles and the specialized ones, or, when SWAPEquiv is reached
\* from c <= 0, between the mirrored angles (pi/2 - a, b, -c) and the specialized
\* ones; forcing IdEquiv with the default fidelity away from (0, 0, 0) fails.
C8_FidelityError ==
    (pc = "done" /\ dec # Nil)
    => LET a == w.cs[1]
           b == w.cs[0]
           c == w.cs[2]
           mirrored == dec.specialization = "SWAPEquiv" /\ c <= 0
           da == IF mirrored THEN PI2 - a - dec.a ELSE a - dec.a
           db == b - dec.b
           dc == IF mirrored THEN -c - dec.c ELSE c - dec.c
           achieved == TraceToFid(TraceOf(da, db, dc))
           failed == ~result.ok /\ result.error = "fidelity"
       IN  /\ IsSome(call.fidelity)
                => (failed <=> achieved + FidelityTolerance < call.fidelity[1])
           /\ ~IsSome(call.fidelity) => result.ok
           /\ (/\ call.specialization = Some("IdEquiv")
               /\ call.fidelity = Some(DEFAULT_FIDELITY)
               /\ <<a, b, c>> # <<0, 0, 0>>) => failed

\* IdEquiv forced with the default fidelity on angles away from zero has failed.
C8_Witness ==
    /\ pc = "done" /\ dec # Nil
    /\ call.specialization = Some("IdEquiv")
    /\ call.fidelity = Some(DEFAULT_FIDELITY)
    /\ w.cs[1] = PI4
    /\ ~result.ok /\ result.error = "fidelity"

\* C8 as stated: the achieved fidelity is always that of the differences
\* between the chamber angles and the specialized ones.
C8_UnmirroredFidelityError ==
    (pc = "done" /\ dec # Nil /\ IsSome(call.fidelity))
    => LET achieved == TraceToFid(TraceOf(w.cs[1] - dec.a, w.cs[0] - dec.b,
                                          w.cs[2] - dec.c))
       IN  (~result.ok /\ result.error = "fidelity")
               <=> achieved + FidelityTolerance < call.fidelity[1]

\* C9: with no specialization forced the record has the specialization of the
\* first closeness test that passes, in the order IdEquiv, SWAPEquiv,
\* PartialSWAPEquiv, PartialSWAPFlipEquiv, ControlledEquiv, MirrorControlledEquiv,
\* fSimaabEquiv, fSimabbEquiv, fSimabmbEquiv, and General if none passes; a forced
\* specialization is the one of the record whatever the tests say.
C9_FirstMatchWins ==
    (pc \in {"check", "done"} /\ dec # Nil)
    => LET a == w.cs[1]
           b == w.cs[0]
           c == w.cs[2]
           f == call.fidelity
           x == ClosestPartialSwap(a, b, c)
           y == ClosestPartialSwap(a, b, -c)
           names == <<"IdEquiv", "SWAPEquiv", "PartialSWAPEquiv", "PartialSWAPFlipEquiv",
                      "ControlledEquiv", "MirrorControlledEquiv", "fSimaabEquiv",
                      "fSimabbEquiv", "fSimabmbEquiv">>
           tests == <<IsClose(a, b, c, f, 0, 0, 0),
                      IsClose(a, b, c, f, PI4, PI4, PI4) \/ IsClose(a, b, c, f, PI4, PI4, -PI4),
                      IsClose(a, b, c, f, x, x, x),
                      IsClose(a, b, c, f, y, y, -y),
                      IsClose(a, b, c, f, a, 0, 0),
                      IsClose(a, b, c, f, PI4, PI4, c),
                      IsClose(a, b, c, f, (a + b) \div 2, (a + b) \div 2, c),
                      IsClose(a, b, c, f, a, (b + c) \div 2, (b + c) \div 2),
                      IsClose(a, b, c, f, a, (b - c) \div 2, (c - b) \div 2)>>
           passing == {i \in 1..9 : tests[i]}
       IN  IF IsSome(call.specialization)
           THEN dec.specialization = call.specialization[1]
           ELSE IF passing = {}
                THEN dec.specialization = "General"
                ELSE \E i \in passing :
                        /\ \A j \in passing : i <= j
                        /\ dec.specialization = names[i]

\* IdEquiv was selected although the later ControlledEquiv test passes as well.
C9_Witness ==
    /\ pc = "check"
    /\ ~IsSome(call.specialization)
    /\ dec.specialization = "IdEquiv"
    /\ w.cs[1] > 0
    /\ IsClose(w.cs[1], w.cs[0], w.cs[2], call.fidelity, w.cs[1], 0, 0)

\* C10: the loop runs at most MaxTrials trials and stops at the first trial that
\* passes; trial 0 uses the fixed coefficients and draws nothing, every later
\* trial draws two samples; the call fails with the diagonalization error
\* exactly when no trial passes; the loop is always left.
C10_RetryLoop ==
    /\ [](/\ trial < MaxTrials
          /\ pc = "found" => (/\ trial \in call.target.diag_ok
                              /\ \A i \in call.target.diag_ok : trial <= i
                              /\ rng_draws = 2 * trial)
          /\ pc = "notfound" => (trial = MaxTrials - 1 /\ rng_draws = 2 * trial)
          /\ pc = "done" =>
                ((~result.ok /\ result.error = "failed to diagonalize M2")
                    <=> call.target.diag_ok = {}))
    /\ [][pc = "diag" =>
            /\ trial = 0 => (rng_draws' = rng_draws /\ rand_ab'.source = "fixed")
            /\ trial > 0 => (rng_draws' = rng_draws + 2 /\ rand_ab'.source = "rng")]_vars
    /\ (pc = "diag" ~> pc \in {"found", "notfound"})

\* The loop has been left at a passing trial after several failing ones.
C10_Witness ==
    /\ pc = "found"
    /\ trial = MaxTrials - 1
    /\ rng_draws = 2 * (MaxTrials - 1)
    /\ rand_ab.source = "rng"

\* The operations of the synthesizer that return a gate sequence.

\* The entries of a sequence that apply the synthesizer's basis gate.
BasisGateUses(sequence, self) ==
    Cardinality({i \in 1..Len(sequence.gates) : sequence.gates[i] = BasisGate(self)})

\* trace_to_fid(trace_k) * basis_fidelity^k for a basis fidelity of f steps,
\* times FidelitySteps^3.
Score(traces, f, k) ==
    TraceToFid(traces[k + 1]) * (IF k = 0 THEN 1 ELSE f ^ k) * (FidelitySteps ^ (3 - k))

\* k is the smallest count whose discounted fidelity is maximal.
IsSmallestMaximal(k, traces, f) ==
    /\ k \in 0..3
    /\ \A j \in 0..3 : Score(traces, f, j) <= Score(traces, f, k)
    /\ \A j \in 0..(k - 1) : Score(traces, f, j) < Score(traces, f, k)

\* C3: with no count forced, call_inner, generate_sequence and __num_basis_gates
\* choose the smallest count in 0..3 whose discounted fidelity
\* trace_to_fid(trace_k) * basis_fidelity^k is maximal, the basis fidelity being
\* 1.0 unless approximate; the sequence returned applies the basis gate that
\* many times.  A forced count is the count used whatever the fidelities are:
\* the sequence applies the basis gate that many times, and the dispatch on the
\* count is left without a result only for a forced count above 3.
C3_SmallestMaximalCount ==
    /\ (pc = "done" /\ call.op \in SynthOps)
       => LET t == result.target_decomposed
              traces == BasisTraces(t.a, t.b, t.c, synth.basis_decomposer.b)
              f == IF ~call.approximate THEN FidelitySteps
                   ELSE IF IsSome(call.basis_fidelity) THEN call.basis_fidelity[1]
                   ELSE synth.basis_fidelity
          IN  /\ result.ok
              /\ BasisGateUses(result.value, synth) = result.best_nbasis
              /\ IF IsSome(call.num_basis_uses)
                 THEN result.best_nbasis = call.num_basis_uses[1]
                 ELSE IsSmallestMaximal(result.best_nbasis, traces, f)
    /\ (pc = "done" /\ call.op = "num_basis_gates")
       => LET abc == result.coordinates
          IN  IsSmallestMaximal(result.value,
                                BasisTraces(abc[1], abc[2], abc[3], call.basis_b),
                                call.basis_fidelity)
    /\ pc = "aborted" => (IsSome(call.num_basis_uses) /\ call.num_basis_uses[1] > 3)

\* With no count forced two uses were chosen where three uses have the same
\* discounted fidelity.
C3_Witness ==
    /\ pc = "done" /\ call.op = "call_inner"
    /\ ~IsSome(call.num_basis_uses)
    /\ result.best_nbasis = 2
    /\ BasisGateUses(result.value, synth) = 2
    /\ LET t == result.target_decomposed
           traces == BasisTraces(t.a, t.b, t.c, synth.basis_decomposer.b)
       IN  Score(traces, FidelitySteps, 3) = Score(traces, FidelitySteps, 2)

\* C4: synthesizing the CNOT matrix with a synthesizer whose basis gate is CNOT,
\* approximate = false and no count forced yields a sequence with exactly one
\* application of the basis gate.
C4_OneUseForCNOT ==
    (/\ pc = "done" /\ call.op \in SynthOps
     /\ synth.gate = "cx"
     /\ ~call.approximate /\ ~IsSome(call.num_basis_uses)
     /\ UnitaryOf(call.target) = CX_GATE)
    => (result.ok /\ BasisGateUses(result.value, synth) = 1)

\* generate_sequence returned a sequence for the CNOT matrix over CNOT that
\* holds the basis gate once.
C4_Witness ==
    /\ pc = "done" /\ call.op = "generate_sequence"
    /\ synth.gate = "cx"
    /\ ~call.approximate /\ ~IsSome(call.num_basis_uses)
    /\ UnitaryOf(call.target) = CX_GATE
    /\ result.ok
    /\ BasisGateUses(result.value, synth) = 1
    /\ result.best_nbasis = 1

\* C5: the canonicalization of the 4x4 identity with the default fidelity and no
\* specialization forced is IdEquiv with a = b = c = 0; its synthesis with no
\* count forced selects 0 uses, and the sequence holds no basis gate and only
\* one-qubit gates that are multiples of the identity.
C5_IdentityRoundTrip ==
    (/\ pc = "done" /\ call.op \in SynthOps
     /\ UnitaryOf(call.target) = TWO_QUBIT_IDENTITY)
    => LET t == result.target_decomposed
       IN  /\ t.specialization = "IdEquiv"
           /\ t.a = 0 /\ t.b = 0 /\ t.c = 0
           /\ ~IsSome(call.num_basis_uses)
                => /\ result.ok
                   /\ result.best_nbasis = 0
                   /\ BasisGateUses(result.value, synth) = 0
                   /\ \A i \in 1..Len(result.value.gates) :
                         /\ result.value.gates[i].gate = "1q"
                         /\ IdentityPhases(result.value.gates[i].matrix) # {}

\* The identity, found with one-qubit factors that are not multiples of the
\* identity, was synthesized approximately into the empty sequence.
C5_Witness ==
    /\ pc = "done" /\ call.op = "call_inner"
    /\ UnitaryOf(call.target) = TWO_QUBIT_IDENTITY
    /\ IdentityPhases(call.target.K[1]) = {}
    /\ call.approximate /\ ~IsSome(call.num_basis_uses)
    /\ result.target_decomposed.specialization = "IdEquiv"
    /\ result.best_nbasis = 0
    /\ result.value.gates = <<>>

\* C6 (as amended): for (a, b, c) in the chamber with a < pi/4 the Weyl
\* coordinates of Ud(a, b, c) are (a, b, c); on the face a = pi/4 they are
\* (a, b, c) or (a, b, -c), and those of Ud(pi/4, pi/4, -pi/4) are
\* (pi/4, pi/4, pi/4).
C6_WeylCoordinatesOfUd ==
    (pc = "done" /\ call.op = "weyl_coordinates")
    => LET p == call.abc
       IN  /\ p[1] < PI4 => result.value = p
           /\ p[1] = PI4 => result.value \in {p, <<p[1], p[2], -p[3]>>}
           /\ p = <<PI4, PI4, -PI4>> => result.value = <<PI4, PI4, PI4>>

\* The coordinates of an inner point with c < 0 came back unchanged from
\* eigenvalues listed in another order than the diagonal's.
C6_Witness ==
    /\ pc = "done" /\ call.op = "weyl_coordinates"
    /\ call.abc = <<3 * (PI8 \div 2), 3 * (PI8 \div 2), -PI8>>
    /\ result.value = call.abc
    /\ w.darg[0] > w.darg[1]

\* C6 as stated: the Weyl coordinates of Ud(a, b, c) are (a, b, c) for every
\* point of the chamber.
C6_UnchangedEverywhere ==
    (pc = "done" /\ call.op = "weyl_coordinates") => result.value = call.abc

\* C7 (as amended): for a fixed target and basis gate the count returned is
\* non-decreasing in the basis fidelity: for f1 <= f2 <= 1 the count returned
\* with f1 is at most the count for f2.
C7_CountNonDecreasing ==
    (pc = "done" /\ call.op = "num_basis_gates")
    => LET abc == result.coordinates
           traces == BasisTraces(abc[1], abc[2], abc[3], call.basis_b)
       IN  \A f2 \in BasisFidelities :
              call.basis_fidelity <= f2 => result.value <= BestNBasis(traces, f2)

\* A target that takes three uses at basis fidelity 1 got the count 0 at a
\* lower basis fidelity.
C7_Witness ==
    /\ pc = "done" /\ call.op = "num_basis_gates"
    /\ call.basis_fidelity < FidelitySteps /\ call.basis_fidelity > 0
    /\ result.value = 0
    /\ BestNBasis(BasisTraces(result.coordinates[1], result.coordinates[2],
                              result.coordinates[3], call.basis_b), FidelitySteps) = 3

\* C7 as stated: for f1 <= f2 <= 1 the count for f2 is at most the count
\* returned with f1.
C7_CountNonIncreasing ==
    (pc = "done" /\ call.op = "num_basis_gates")
    => LET abc == result.coordinates
           traces == BasisTraces(abc[1], abc[2], abc[3], call.basis_b)
       IN  \A f2 \in BasisFidelities :
              call.basis_fidelity <= f2 => BestNBasis(traces, f2) <= result.value

\* A finished synthesis by a synthesizer built with pulse_optimize = true whose
\* gate is not CX or whose Euler basis is not ZSX or ZSXX.
PulseRequestedUnmet ==
    /\ pc = "done" /\ call.op \in SynthOps
    /\ synth.pulse_optimize = Some(TRUE)
    /\ (synth.gate # "cx" \/ synth.euler_basis \notin {"ZSX", "ZSXX"})

\* The error of the preconditions of pulse optimization: the Euler basis is
\* looked at before the gate.
PreconditionError(self) ==
    IF self.euler_basis \notin {"ZSX", "ZSXX"}
    THEN "'pulse_optimize' currently only works with ZSX basis"
    ELSE "pulse_optimizer currently only works with CNOT entangling gate"

\* C11 (as amended): with pulse_optimize = true and the gate not CX or the Euler
\* basis not ZSX or ZSXX, synthesis returns the error of the unmet precondition
\* exactly when the selected count is 2 or 3; for a count of 0 or 1 it returns
\* the sequence of the generic path.
C11_ErrorForTwoOrThreeUses ==
    PulseRequestedUnmet =>
        IF result.best_nbasis \in {2, 3}
        THEN ~result.ok /\ result.error = PreconditionError(synth)
        ELSE /\ result.ok
             /\ result.value = GateSequence(synth, result.target_decomposed,
                                            result.best_nbasis)

C11_Witness ==
    /\ PulseRequestedUnmet
    /\ result.best_nbasis = 3
    /\ synth.gate # "cx" /\ synth.euler_basis = "ZSX"
    /\ ~result.ok

\* C11 as stated: the error is returned for every target.
C11_ErrorForEveryTarget ==
    PulseRequestedUnmet => ~result.ok

\* A finished synthesis by a synthesizer built with pulse_optimize unset or false.
PulseNotRequested ==
    /\ pc = "done" /\ call.op \in SynthOps
    /\ synth.pulse_optimize # Some(TRUE)

\* C12: with pulse_optimize unset or false synthesis returns no error; the
\* sequence is that of the generic path when the gate is not CX, the Euler basis
\* is not ZSX or ZSXX, the selected count is 0 or 1, or pulse_optimize is false.
C12_GenericWhenNotRequested ==
    PulseNotRequested =>
        /\ result.ok
        /\ (\/ synth.gate # "cx"
            \/ synth.euler_basis \notin {"ZSX", "ZSXX"}
            \/ result.best_nbasis \in {0, 1}
            \/ synth.pulse_optimize = Some(FALSE))
           => result.value = GateSequence(synth, result.target_decomposed,
                                          result.best_nbasis)

C12_Witness ==
    /\ PulseNotRequested
    /\ synth.pulse_optimize = None
    /\ synth.gate # "cx" /\ synth.euler_basis = "ZSX"
    /\ result.best_nbasis = 2
    /\ result.ok
    /\ result.value = GateSequence(synth, result.target_decomposed, 2)

GenericDone ==
    /\ pc = "done" /\ call.op \in SynthOps /\ result.ok
    /\ ~(/\ synth.gate = "cx" /\ synth.euler_basis \in {"ZSX", "ZSXX"}
         /\ synth.pulse_optimize # Some(FALSE)
         /\ result.best_nbasis \in {2, 3})

\* The positions of the two-qubit entries of a gate list, and the one-qubit
\* entries before the first of them (i = 0), between two of them, and after
\* the last (i = their number).
TwoQubitPositions(gates) == {p \in 1..Len(gates) : Len(gates[p].qubits) = 2}
NthPosition(P, n) == CHOOSE p \in P : Cardinality({q \in P : q < p}) = n - 1
Segment(gates, i) ==
    LET P == TwoQubitPositions(gates)
        first == IF i = 0 THEN 1 ELSE NthPosition(P, i) + 1
        last == IF i = Cardinality(P) THEN Len(gates) ELSE NthPosition(P, i + 1) - 1
    IN  SubSeq(gates, first, last)

\* C19: on the generic path with count k the decomposition has 2 (k + 1)
\* blocks and the sequence has exactly k two-qubit entries, each the basis gate
\* with the configured parameters on qubits (0, 1); before the copy number i come
\* the gates of block 2 i on qubit 0 and then those of block 2 i + 1 on qubit 1,
\* and after the last copy those of block 2 k on qubit 0 and of block 2 k + 1 on
\* qubit 1.
C19_SequenceStructure ==
    GenericDone =>
        LET k == result.best_nbasis
            decomposition == Decomposition(synth, result.target_decomposed, k)
            gates == result.value.gates
        IN  /\ Len(decomposition) = 2 * (k + 1)
            /\ Cardinality(TwoQubitPositions(gates)) = k
            /\ \A p \in TwoQubitPositions(gates) :
                  gates[p] = [gate |-> synth.gate, params |-> synth.gate_params,
                              qubits |-> <<0, 1>>]
            /\ \A i \in 0..k :
                  Segment(gates, i) = Append1q(decomposition[2 * i + 1], 0)
                                      \o Append1q(decomposition[2 * i + 2], 1)

C19_Witness ==
    /\ GenericDone
    /\ result.best_nbasis = 3
    /\ Len(result.value.gates) = 3 + 8

\* What call_inner returns for a call made with nobody else at the
\* synthesizer, computed in one piece.
SequencesAlone(self, c, target_decomposed, best_nbasis) ==
    {IF sequence.kind = "error"
     THEN [ok |-> FALSE, error |-> sequence.error, best_nbasis |-> best_nbasis,
           target_decomposed |-> target_decomposed]
     ELSE [ok |-> TRUE,
           value |-> IF sequence.kind = "some" THEN sequence.value
                     ELSE GateSequence(self, target_decomposed, best_nbasis),
           best_nbasis |-> best_nbasis, target_decomposed |-> target_decomposed] :
        sequence \in (IF self.pulse_optimize # Some(FALSE)
                      THEN PulseOptimalChooser(
                               self, best_nbasis,
                               Decomposition(self, target_decomposed, best_nbasis),
                               target_decomposed, UnitaryOf(c.target))
                      ELSE {[kind |-> "none"]})}
CallInnerAlone(self, c) ==
    UNION {IF r.ok
           THEN SequencesAlone(self, c, r.value,
                    BestNBasisCallInner(
                        c.num_basis_uses, SynthTraces(self, r.value),
                        EffectiveBasisFidelity(self, c.basis_fidelity, c.approximate)))
           ELSE {r} :
              r \in NewInnerAlone(c.target, c.fidelity, c.specialization)}

\* C17: with the calls of two callers of one synthesizer interleaved step by
\* step, each call returns a result it can return when it runs alone.
C17_InterleavedAsAlone ==
    /\ (pc = "done" /\ call.op = "call_inner") => result \in CallInnerAlone(synth, call)
    /\ (suspended.pc = "done" /\ suspended.call.op = "call_inner")
       => suspended.result \in CallInnerAlone(synth, suspended.call)

C17_Witness ==
    /\ pc = "done" /\ call.op = "call_inner" /\ result.ok
    /\ suspended.pc = "check"
    /\ suspended.call.target # call.target
    /\ result \in CallInnerAlone(synth, call)

\* The samples drawn from the stream of the generator before trial i of the
\* loop takes its coefficients.
DrawnBefore(i) == IF i = 0 THEN 0 ELSE 2 * (i - 1)

\* Both callers have finished canonicalizing the same matrix with the same
\* fidelity and specialization arguments.
SameCanonicalization ==
    /\ pc = "synthesize" /\ suspended.pc = "synthesize"
    /\ call.target = suspended.call.target
    /\ call.fidelity = suspended.call.fidelity
    /\ call.specialization = suspended.call.specialization

\* C18: in every canonicalization, whatever other canonicalization ran before
\* or runs in between, the generator is seeded with 2023 inside the call, trial 0
\* takes the fixed pair and trial i > 0 the samples number 2 (i - 1) + 1 and
\* 2 (i - 1) + 2 of the stream; two canonicalizations of the same matrix with
\* the same arguments stop at the same trial with the same coefficients and
\* return the same angles, specialization and fidelity, each a result of the
\* canonicalization run alone.
C18_SameCoefficients ==
    /\ \A ab \in {rand_ab, suspended.rand_ab} \ {Nil} :
          /\ ab.seed = 2023
          /\ ab.source = (IF ab.trial = 0 THEN "fixed" ELSE "rng")
          /\ ab.drawn_before = DrawnBefore(ab.trial)
    /\ (rand_ab # Nil /\ suspended.rand_ab # Nil /\ rand_ab.trial = suspended.rand_ab.trial)
       => rand_ab = suspended.rand_ab
    /\ SameCanonicalization
       => /\ trial = suspended.trial
          /\ rand_ab = suspended.rand_ab
          /\ \A f \in {"a", "b", "c", "specialization", "calculated_fidelity"} :
                result.value[f] = suspended.result.value[f]
          /\ {result, suspended.result}
                \subseteq NewInnerAlone(call.target, call.fidelity, call.specialization)

C18_Witness ==
    /\ SameCanonicalization
    /\ rand_ab.trial = 2 /\ trial = 2 /\ suspended.trial = 2
    /\ rand_ab.drawn_before = 2
    /\ rand_ab = suspended.rand_ab
    /\ result.value.a = suspended.result.value.a

\* The positions of the applications of the user gate in a sequence of the
\* Controlled-U synthesizer, and a finished synthesis of RXX(pi/3) by the
\* synthesizer of the RXX family.
UserGatePositions(gates) == {p \in 1..Len(gates) : gates[p].gate # "1q"}
IsControlledU(self) == "rxx_equivalent_gate" \in DOMAIN self
RxxSynthesized ==
    /\ pc = "done"
    /\ call.op = "controlled_u_call_inner"
    /\ call.target = RxxTarget(PI \div 3)
    /\ synth.rxx_equivalent_gate.name = "rxx"
    /\ result.ok

\* C14 (as amended): the synthesizer constructed with the RXX family has scale
\* 1.0, and its sequence for RXX(pi/3) holds the user gate exactly once, on
\* qubits 0 and 1, with the parameter scale * (-2 a) = -pi/3; every other gate
\* is a one-qubit gate, none of them identity-equivalent, and there are some.
C14_RxxOnceAtMinusTwoA ==
    /\ (IsControlledU(synth) /\ synth.rxx_equivalent_gate.name = "rxx")
       => synth.scale = Scale
    /\ RxxSynthesized
       => LET gates == result.value.gates
              P == UserGatePositions(gates)
          IN  /\ Cardinality(P) = 1
              /\ \A p \in P : /\ gates[p].gate = "rxx"
                              /\ gates[p].params = <<-(PI \div 3)>>
                              /\ gates[p].qubits = <<0, 1>>
              /\ \A p \in (1..Len(gates)) \ P :
                     /\ Len(gates[p].qubits) = 1
                     /\ IdentityPhases(gates[p].matrix) = {}
              /\ Len(gates) > 1
C14_Witness ==
    /\ RxxSynthesized
    /\ synth.scale = Scale
    /\ result.target_decomposed.a = PI \div 6
    /\ \E p \in UserGatePositions(result.value.gates) :
          result.value.gates[p].params = <<-(PI \div 3)>>
\* C14 as stated: the one application has the parameter pi/3, and every other
\* gate is an identity-equivalent one-qubit gate.
C14_RxxOnceAtPiThird ==
    RxxSynthesized
    => LET gates == result.value.gates
           P == UserGatePositions(gates)
       IN  /\ Cardinality(P) = 1
           /\ \A p \in P : gates[p].params = <<PI \div 3>>
           /\ \A p \in (1..Len(gates)) \ P :
                  /\ Len(gates[p].qubits) = 1
                  /\ IdentityPhases(gates[p].matrix) # {}

\* What the three canonicalizations of probe k of a one-parameter gate family
\* give: the angle a of each, or its error.  The angle is the same for every
\* outcome of the Euler-angle routine.
Probed(gate, k) ==
    [decomp |-> CHOOSE r \in AngleA(NewInnerAlone(Matrix(gate, TestAngles[k]),
                                                  Some(DEFAULT_FIDELITY), None)) : TRUE,
     rxx |-> CHOOSE r \in AngleA(NewInnerAlone(RxxTarget(TestAngles[k]), None,
                                               Some("ControlledEquiv"))) : TRUE,
     equiv |-> CHOOSE r \in AngleA(NewInnerAlone(Matrix(gate, TestAngles[k]),
                                                 Some(DEFAULT_FIDELITY),
                                                 Some("ControlledEquiv"))) : TRUE]
ProbedAll(gate) ==
    IF gate.num_params # 1 THEN <<>>
    ELSE SubSeq([k \in 1..Len(TestAngles) |-> Probed(gate, k)], 1, Len(TestAngles))
ProbedScale(probes, k) == (probes[k].rxx.a * Scale) \div probes[k].equiv.a
ProbedError(probes, k) ==
    IF ~probes[k].decomp.ok THEN probes[k].decomp.error
    ELSE IF ~probes[k].rxx.ok THEN probes[k].rxx.error
    ELSE IF ~probes[k].equiv.ok THEN probes[k].equiv.error
    ELSE IF 2 * probes[k].decomp.a # (TestAngles[k] * Scale) \div ProbedScale(probes, k)
         THEN "The provided gate is not equivalent to an RXX."
    ELSE "none"
ExpectedError(gate, probes) ==
    IF gate.num_params # 1
    THEN "Equivalent gate needs to take exactly 1 angle parameter."
    ELSE IF \E k \in 1..Len(TestAngles) : ProbedError(probes, k) # "none"
    THEN ProbedError(probes, CHOOSE k \in 1..Len(TestAngles) :
                                /\ ProbedError(probes, k) # "none"
                                /\ \A j \in 1..(k - 1) : ProbedError(probes, j) = "none")
    ELSE IF \E k \in 1..Len(TestAngles) : ProbedScale(probes, k) # ProbedScale(probes, 1)
    THEN "Inconsistent scaling parameters in check."
    ELSE "none"
ConstructionFailed == pc = "done" /\ call.op = "controlled_u_new_inner"

ControlledUDone ==
    pc = "done" /\ call.op = "controlled_u_call_inner" /\ result.ok
IsOn(g, matrix, qubit) == g.gate = "1q" /\ g.matrix = matrix /\ g.qubits = <<qubit>>
OneUse(seq, param) ==
    /\ Cardinality(UserGatePositions(seq)) = 1
    /\ \A p \in UserGatePositions(seq) : seq[p].params = <<param>>
Wrapped(seq, first, last, param) ==
    /\ Len(seq) >= 5
    /\ IsOn(seq[1], first, 0) /\ IsOn(seq[2], first, 1)
    /\ IsOn(seq[Len(seq) - 1], last, 0) /\ IsOn(seq[Len(seq)], last, 1)
    /\ OneUse(SubSeq(seq, 3, Len(seq) - 2), param)
SubCircuitsInOrder(self, mid, a, b, c, atol) ==
    \E i \in 0..Len(mid) : \E j \in i..Len(mid) :
       /\ OneUse(SubSeq(mid, 1, i), FMul(self.scale, -2 * a))
       /\ IF Abs(b) > atol
          THEN Wrapped(SubSeq(mid, i + 1, j), SDG_GATE, S_GATE, FMul(self.scale, -2 * b))
          ELSE i = j
       /\ IF Abs(c) > atol
          THEN Wrapped(SubSeq(mid, j + 1, Len(mid)), H_GATE, H_GATE,
                       FMul(self.scale, -2 * c))
          ELSE j = Len(mid)

\* C20: the sequence returned by the Controlled-U call_inner is the one-qubit
\* gates of K2r on qubit 0, then those of K2l on qubit 1, then the sub-circuit
\* for a (one use of the gate), then the sub-circuit for b between S-dagger and
\* S on both qubits, present only if |b| > atol, then the sub-circuit for c
\* between Hadamards on both qubits, present only if |c| > atol, then the gates
\* of K1r on qubit 0 and last those of K1l on qubit 1.
C20_ControlledUOrder ==
    ControlledUDone
    => LET td == result.target_decomposed
           gates == result.value.gates
           first == Gates1q(OneQubitSequence(td.K2r), 0)
                    \o Gates1q(OneQubitSequence(td.K2l), 1)
           last == Gates1q(OneQubitSequence(td.K1r), 0)
                   \o Gates1q(OneQubitSequence(td.K1l), 1)
       IN  /\ Len(gates) >= Len(first) + Len(last)
           /\ SubSeq(gates, 1, Len(first)) = first
           /\ SubSeq(gates, Len(gates) - Len(last) + 1, Len(gates)) = last
           /\ SubCircuitsInOrder(synth,
                                 SubSeq(gates, Len(first) + 1, Len(gates) - Len(last)),
                                 td.a, td.b, td.c, UnwrapOr(call.atol, DEFAULT_ATOL))
C20_Witness ==
    /\ ControlledUDone
    /\ call.atol = None
    /\ result.target_decomposed.b > 0
    /\ result.target_decomposed.c < 0
    /\ Cardinality(UserGatePositions(result.value.gates)) = 3
    /\ IsOn(result.value.gates[1], result.target_decomposed.K2r, 0)
    /\ IsOn(result.value.gates[Len(result.value.gates)], result.target_decomposed.K1l, 1)

\* g undoes h: the same qubits, and the inverse matrix of a one-qubit gate or
\* the negated parameter of the user gate.
Undoes(g, h) ==
    /\ g.qubits = h.qubits
    /\ g.gate = h.gate
    /\ IF h.gate = "1q" THEN Dot(g.matrix, h.matrix) = ONE_QUBIT_IDENTITY
       ELSE g.params = <<-h.params[1]>>
\* The global phases call_inner adds that are not the sub-circuit for c's.
PhaseWithoutC(td, circ_a, circ_b) ==
    td.global_phase
    + OneQubitSequence(td.K2r).global_phase + OneQubitSequence(td.K2l).global_phase
    + OneQubitSequence(td.K1r).global_phase + OneQubitSequence(td.K1l).global_phase
    + circ_a.global_phase + circ_b.global_phase
    + 2 * OneQubitSequence(SDG_GATE).global_phase
    + 2 * OneQubitSequence(S_GATE).global_phase

\* C21: with |c| > atol the sub-circuit for c stands between Hadamards on both
\* qubits.  For -2 c <= 0 it is the circuit of to_rxx_gate(-2 c) and its global
\* phase is added; for -2 c > 0 the circuit of to_rxx_gate(-2 |c|) is built and
\* its inverse is emitted: its gates in reverse order, each replaced by its
\* inverse, and its global phase subtracted.
C21_SignOfC ==
    (ControlledUDone
       /\ Abs(result.target_decomposed.c) > UnwrapOr(call.atol, DEFAULT_ATOL))
    => \E td \in {result.target_decomposed} :
       \E atol \in {UnwrapOr(call.atol, DEFAULT_ATOL)} :
       \E circ_a \in ToRxxGate(synth, -2 * td.a, call.rule) :
       \E circ_b \in (IF Abs(td.b) > atol THEN ToRxxGate(synth, -2 * td.b, call.rule)
                      ELSE {Skipped}) :
       \E circ_c \in ToRxxGate(synth, -2 * Abs(td.c), call.rule) :
          LET gates == result.value.gates
              n == Len(circ_c.value.gates)
              e == Len(gates) - Len(OneQubitSequence(td.K1r).gates)
                   - Len(OneQubitSequence(td.K1l).gates)
              inner == SubSeq(gates, e - 1 - n, e - 2)
              others == PhaseWithoutC(td, circ_a.value, circ_b.value)
                        + 4 * OneQubitSequence(H_GATE).global_phase
          IN  /\ circ_a.ok /\ circ_b.ok /\ circ_c.ok
              /\ e >= n + 4
              /\ IsOn(gates[e - 3 - n], H_GATE, 0) /\ IsOn(gates[e - 2 - n], H_GATE, 1)
              /\ IsOn(gates[e - 1], H_GATE, 0) /\ IsOn(gates[e], H_GATE, 1)
              /\ IF -2 * td.c <= 0
                 THEN /\ inner = circ_c.value.gates
                      /\ result.value.global_phase = others + circ_c.value.global_phase
                 ELSE /\ \A k \in 1..n : Undoes(inner[k], circ_c.value.gates[n + 1 - k])
                      /\ result.value.global_phase = others - circ_c.value.global_phase
C21_Witness ==
    /\ ControlledUDone
    /\ call.atol = None
    /\ result.target_decomposed.c < 0
    /\ \E circ_c \in ToRxxGate(synth, 2 * result.target_decomposed.c, call.rule) :
          /\ circ_c.ok
          /\ Len(circ_c.value.gates) > 1
          /\ circ_c.value.gates[1].gate = "1q"
          /\ \E p \in UserGatePositions(result.value.gates) :
             \E q \in UserGatePositions(circ_c.value.gates) :
                /\ result.value.gates[p].params = <<-circ_c.value.gates[q].params[1]>>
                /\ Undoes(result.value.gates[p + q - 1], circ_c.value.gates[1])

\* The number of the canonical angles of a record whose magnitude exceeds
\* DEFAULT_ATOL.
AnglesAboveAtol(td) ==
    Cardinality({k \in {"a", "b", "c"} : Abs(td[k]) > DEFAULT_ATOL})

\* C26: the number of applications of the user gate in the sequence call_inner
\* returns with the default atol is the value num_basis_gates_inner returns for
\* the same unitary: the number of the angles a, b, c above 1e-12.
C26_UsesEqualCount ==
    /\ (pc = "done" /\ call.op = "controlled_u_num_basis_gates" /\ result.ok)
       => result.value = AnglesAboveAtol(result.target_decomposed)
    /\ (ControlledUDone /\ call.atol = None)
       => Cardinality(UserGatePositions(result.value.gates))
          = AnglesAboveAtol(result.target_decomposed)

\* The operations on a constructed synthesizer.
SynthesizerOps ==
    {"call_inner", "generate_sequence", "num_basis_gates", "controlled_u_call_inner",
     "controlled_u_num_basis_gates"}

\* C16: no step of call_inner, generate_sequence or num_basis_gates_inner of the
\* Basis-Gate synthesizer, or of call_inner or num_basis_gates_inner of the
\* Controlled-U synthesizer, changes a field of the constructed synthesizer,
\* whether the operation returns a value or an error; the synthesizer keeps
\* nothing of what was returned.
C16_SynthesizerUnchanged ==
    [][synth # Nil => synth' = synth]_vars
C16_Witness ==
    /\ pc = "done"
    /\ call.op \in SynthesizerOps
    /\ ~result.ok
    /\ IsControlledU(synth)
    /\ synth = [scale |-> Scale,
                rxx_equivalent_gate |-> [name |-> "rxx_positive", num_params |-> 1],
                euler_basis |-> "ZXZ"]

\* A finished product decomposition, and its two errors.
ProductDone == pc = "done" /\ call.op = "decompose_two_qubit_product_gate"
DetRError == "decompose_two_qubit_product_gate: unable to decompose: detR < 0.1"
DetLError == "decompose_two_qubit_product_gate: unable to decompose: detL < 0.9"

\* C22 (as amended): the product decomposition takes the top-left block unless
\* the magnitude of its determinant is below 0.1, and the bottom-left block
\* then, which is the larger of the two only in that case.  It returns the
\* 'unable to decompose: detR < 0.1' error exactly when both magnitudes are below
\* 0.1, and otherwise the 'unable to decompose: detL < 0.9' error exactly when
\* the determinant of the left factor computed from the block chosen has a
\* magnitude below 0.9.
C22_FirstBlockAboveThreshold ==
    ProductDone
    => LET m == call.special_unitary
           chosen == IF m.det_top_left >= Scale \div 10 THEN "top-left" ELSE "bottom-left"
           both_below == m.det_top_left < Scale \div 10 /\ m.det_bottom_left < Scale \div 10
       IN  /\ result.ok => result.r = chosen
           /\ (~result.ok /\ result.error = DetRError) <=> both_below
           /\ (~result.ok /\ result.error = DetLError)
              <=> (~both_below /\ m.det_l[chosen] < (9 * Scale) \div 10)
C22_Witness ==
    /\ ProductDone
    /\ result.ok
    /\ result.r = "top-left"
    /\ call.special_unitary.det_top_left < call.special_unitary.det_bottom_left
\* C22 as stated: the block chosen has the larger magnitude, and the call fails
\* exactly when both magnitudes are below 0.1.
C22_LargerBlock ==
    ProductDone
    => LET m == call.special_unitary
       IN  /\ result.ok
              => m[IF result.r = "top-left" THEN "det_top_left" ELSE "det_bottom_left"]
                 >= m[IF result.r = "top-left" THEN "det_bottom_left" ELSE "det_top_left"]
           /\ ~result.ok
              <=> (m.det_top_left < Scale \div 10 /\ m.det_bottom_left < Scale \div 10)

\* A canonicalization that has returned, called with no fidelity and no
\* specialization.
PlainCanonicalized ==
    /\ pc = "done"
    /\ call.op = "new_inner"
    /\ call.fidelity = None
    /\ call.specialization = None
    /\ call.target.diag_ok # {}

\* C23: canonicalization with no requested fidelity and no forced
\* specialization returns no fidelity error; its record has the specialization
\* General, the angles of the chamber reduction and the K matrices the chamber
\* reduction left.
C23_GeneralWithoutFidelity ==
    PlainCanonicalized
    => /\ result.ok
       /\ result.value.specialization = "General"
       /\ result.value.a = w.cs[1] /\ result.value.b = w.cs[0] /\ result.value.c = w.cs[2]
       /\ result.value.K1l = w.K1l /\ result.value.K1r = w.K1r
       /\ result.value.K2l = w.K2l /\ result.value.K2r = w.K2r
C23_Witness ==
    /\ PlainCanonicalized
    /\ result.ok
    /\ result.value.specialization = "General"
    /\ result.value.a = 0 /\ result.value.b = 0 /\ result.value.c = 0
    /\ result.value.K1l = w.K1l

CircuitDone == pc = "done" /\ call.op = "circuit" /\ result.ok

\* C24: the global phase of the circuit returned by
\* TwoQubitWeylDecomposition::circuit is the record's global phase plus the
\* addition of weyl_gate plus the global phases of the one-qubit decompositions
\* of K2r, K2l, K1r and K1l, each counted once.
C24_PhaseCountsEachOnce ==
    CircuitDone
    => result.value.global_phase
       = CircuitPhaseEachOnce(result.decomposition, call.simplify, call.atol)

\* A canonicalization that has returned, called with a requested fidelity and
\* no specialization.
AutomaticallySelected ==
    /\ pc = "done"
    /\ call.op = "new_inner"
    /\ IsSome(call.fidelity)
    /\ call.specialization = None
    /\ call.target.diag_ok # {}

\* The points (a', b', c') of the closeness tests of a specialization at the
\* chamber-reduced angles, and the value trace_to_fid of the test at a point.
ClosenessPoints(a, b, c, specialization) ==
    CASE specialization = "IdEquiv" -> {<<0, 0, 0>>}
      [] specialization = "SWAPEquiv" -> {<<PI4, PI4, PI4>>, <<PI4, PI4, -PI4>>}
      [] specialization = "PartialSWAPEquiv" ->
            {<<ClosestPartialSwap(a, b, c), ClosestPartialSwap(a, b, c),
               ClosestPartialSwap(a, b, c)>>}
      [] specialization = "PartialSWAPFlipEquiv" ->
            {<<ClosestPartialSwap(a, b, -c), ClosestPartialSwap(a, b, -c),
               -ClosestPartialSwap(a, b, -c)>>}
      [] specialization = "ControlledEquiv" -> {<<a, 0, 0>>}
      [] specialization = "MirrorControlledEquiv" -> {<<PI4, PI4, c>>}
      [] specialization = "fSimaabEquiv" -> {<<(a + b) \div 2, (a + b) \div 2, c>>}
      [] specialization = "fSimabbEquiv" -> {<<a, (b + c) \div 2, (b + c) \div 2>>}
      [] specialization = "fSimabmbEquiv" -> {<<a, (b - c) \div 2, (c - b) \div 2>>}
      [] OTHER -> {}
ClosenessValue(a, b, c, point) ==
    TraceToFid(TraceOf(a - point[1], b - point[2], c - point[3]))

\* C25: a specialization selected automatically under a requested fidelity is
\* returned, never the fidelity error; its achieved fidelity is the value of
\* the closeness test that selected it, and for SWAPEquiv the value of one of
\* its two tests that is no lower than that of any test that passed.
C25_SelectedNeverFails ==
    AutomaticallySelected
    => /\ result.ok
       /\ \E a \in {w.cs[1]}, b \in {w.cs[0]}, c \in {w.cs[2]} :
          \E points \in {ClosenessPoints(a, b, c, result.value.specialization)} :
             /\ result.value.specialization # "General"
                => \E p \in points :
                      result.value.calculated_fidelity = ClosenessValue(a, b, c, p)
             /\ \A p \in points :
                   ClosenessValue(a, b, c, p) >= call.fidelity[1]
                   => result.value.calculated_fidelity >= ClosenessValue(a, b, c, p)
\* SWAPEquiv selected at a point with c < 0 that is not the exact SWAP class.
C25_Witness ==
    /\ AutomaticallySelected
    /\ result.ok
    /\ result.value.specialization = "SWAPEquiv"
    /\ w.cs[2] < 0
    /\ result.value.calculated_fidelity < Scale
    /\ result.value.calculated_fidelity >= call.fidelity[1]

\* A finished call_inner of a synthesizer over CX with Euler basis ZSX or ZSXX
\* and pulse_optimize unset, that dispatched on two or three uses.
PulseUnsetPreconditionsMet ==
    /\ pc = "done" /\ call.op \in SynthOps
    /\ synth.pulse_optimize = None
    /\ synth.gate = "cx" /\ synth.euler_basis \in ZSXBases
    /\ result.best_nbasis \in {2, 3}
CXPositions(gates) == {k \in 1..Len(gates) : gates[k].gate = "cx"}

\* C27: with pulse_optimize unset, the gate CX, the Euler basis ZSX or ZSXX and
\* two or three uses, synthesis returns the sequence of the pulse-efficient
\* routine, not that of the generic path; it holds as many CX as uses and every
\* other gate acts on one qubit.
C27_PulseSequenceWhenUnset ==
    PulseUnsetPreconditionsMet
    => /\ result.ok
       /\ result.value # GateSequence(synth, result.target_decomposed, result.best_nbasis)
       /\ Cardinality(CXPositions(result.value.gates)) = result.best_nbasis
       /\ \A k \in 1..Len(result.value.gates) :
             k \notin CXPositions(result.value.gates)
             => /\ Len(result.value.gates[k].qubits) = 1
                /\ result.value.gates[k].gate \in {"sx", "rz", "1q"}
C27_Witness ==
    /\ PulseUnsetPreconditionsMet
    /\ result.best_nbasis = 3
    /\ result.ok
    /\ Cardinality(CXPositions(result.value.gates)) = 3
    /\ \E k \in 1..Len(result.value.gates) : result.value.gates[k].gate = "sx"

\* A call_inner or generate_sequence that ended after canonicalizing its target:
\* by returning or by aborting.
SynthesisEnded ==
    /\ pc \in {"done", "aborted"}
    /\ call.op \in SynthOps
    /\ (pc = "done" => "target_decomposed" \in DOMAIN result)
OtherOp(op) == IF op = "call_inner" THEN "generate_sequence" ELSE "call_inner"

\* C28: call_inner and generate_sequence are equivalent: whatever one of them
\* does with a synthesizer, arguments and canonicalized target (the count it
\* selects, the sequence and phase or the error it returns, an abort), the
\* other can do with the same.
C28_SameOutcome ==
    SynthesisEnded
    => (IF pc = "aborted" THEN [aborted |-> TRUE]
        ELSE [aborted |-> FALSE, result |-> result])
       \in SynthesisOutcomes(synth, OtherOp(call.op), call.num_basis_uses,
                             call.basis_fidelity, call.approximate,
                             UnitaryOf(call.target),
                             IF pc = "aborted" THEN result.value
                             ELSE result.target_decomposed)

\* A canonicalization past its chamber reduction.
ChamberReduced ==
    /\ pc \in {"specialize", "check", "done"}
    /\ call.op = "new_inner"
    /\ w # Nil

\* C29: from the same pairwise averages the sorting and the chamber reduction
\* of __weyl_coordinates give the triple (a, b, c) that those of new_inner give,
\* which also update the K matrices and the global phase.
C29_SameTriple ==
    ChamberReduced
    => WeylCoordinates(call.target.d) = <<w.cs[1], w.cs[0], w.cs[2]>>
\* Reductions with two conjugations and a flip of the third angle.
C29_Witness ==
    /\ ChamberReduced
    /\ w.conjs = 2
    /\ w.cs[2] # SortedAngles(call.target.d)[2]
    /\ w.K1l # call.target.K[1]
    /\ WeylCoordinates(call.target.d) = <<w.cs[1], w.cs[0], w.cs[2]>>

\* A call_inner or generate_sequence with a forced count that has left the
\* canonicalization of its target behind.
ForcedSynthesisEnded ==
    /\ pc \in {"done", "aborted"}
    /\ call.op \in SynthOps
    /\ IsSome(call.num_basis_uses)
    /\ call.target.diag_ok # {}

\* C30: with a forced count of 4 or more the call aborts in the dispatch, after
\* the canonicalization: it returns neither a sequence nor an error; with a
\* forced count of 0, 1, 2 or 3 it does not abort there.
C30_AbortsFromFour ==
    ForcedSynthesisEnded
    => /\ call.num_basis_uses[1] >= 4
          => /\ pc = "aborted"
             /\ result.ok
             /\ DOMAIN result = {"ok", "value"}
             /\ "specialization" \in DOMAIN result.value
       /\ call.num_basis_uses[1] \in 0..3
          => /\ pc = "done"
             /\ result.best_nbasis = call.num_basis_uses[1]
C30_Witness ==
    /\ ForcedSynthesisEnded
    /\ call.num_basis_uses = Some(4)
    /\ pc = "aborted"
    /\ "specialization" \in DOMAIN result.value


====
